---- MODULE Spec2Model ----
(***************************************************************************)
(* A model of the bidirectional CAN gateway (wp4.core.gateway), its        *)
(* per-direction state (wp4.core.direction_stats) and the manipulation     *)
(* engine (wp4.core.manipulation).                                         *)
(*                                                                         *)
(* Time is an integer number of milliseconds (time.time() * 1000).  The    *)
(* caller of start()/stop() is one control thread; the four workers are    *)
(* the two receivers and the two senders.  Thread.join(timeout=2.0) is     *)
(* modelled as waiting for the worker: every blocking call of a worker is  *)
(* bounded by 0.5 s or is ended by the notify of stop().                   *)
(***************************************************************************)
EXTENDS Integers, Sequences, FiniteSets, TLC

\* ------------------------------------------------------------------ bounds

\* frames the environment puts on the two interfaces in one behaviour
MaxFrames == 3
\* the clock runs from 0 to MaxTime
MaxTime == 1
\* the heap capacity; the source's value is 10000 (gateway.py:36), scaled
\* down so that the over-capacity eviction is reached
MAX_QUEUE_SIZE == 2

Dirs == {"0to1", "1to0"}
Ifaces == {0, 1}

\* _receive_loop(bus0, "0to1"), _receive_loop(bus1, "1to0")
SrcIface(d) == IF d = "0to1" THEN 0 ELSE 1
\* _send_loop(bus1, "0to1"), _send_loop(bus0, "1to0")
\* a sender wired to the bus its own receiver reads
LoopbackIface(d) == SrcIface(d)

DstIface(d) == IF d = "0to1" THEN 1 ELSE 0

Nil == [nil |-> TRUE]

\* values the constructor and the setters are given
DelayValues == {0, 1}
JitterValues == {0, 1}
LossValues == {0, 50, 100}
\* random.random() * 100, sampled
RandomPcts == {0, 99}

\* ---------------------------------------------------------- bit arithmetic

RECURSIVE BitAnd(_, _)
BitAnd(a, b) ==
    IF a = 0 \/ b = 0 THEN 0
    ELSE ((a % 2) * (b % 2)) + 2 * BitAnd(a \div 2, b \div 2)

RECURSIVE BitOr(_, _)
BitOr(a, b) ==
    IF a = 0 THEN b
    ELSE IF b = 0 THEN a
    ELSE (IF (a % 2) + (b % 2) > 0 THEN 1 ELSE 0) + 2 * BitOr(a \div 2, b \div 2)

RECURSIVE BitXor(_, _)
BitXor(a, b) ==
    IF a = 0 THEN b
    ELSE IF b = 0 THEN a
    ELSE (((a % 2) + (b % 2)) % 2) + 2 * BitXor(a \div 2, b \div 2)

\* ------------------------------------------------------ manipulation engine

\* an apply whose ADD and SUB do not wrap
ByteApplyNoWrap(m, data) ==
    IF m.byte_index >= Len(data) THEN data
    ELSE LET original == data[m.byte_index + 1]
             v == CASE m.operation = "set" -> BitAnd(m.value, 255)
                    [] m.operation = "and" -> BitAnd(original, m.value)
                    [] m.operation = "or"  -> BitOr(original, m.value)
                    [] m.operation = "xor" -> BitXor(original, m.value)
                    [] m.operation = "add" -> original + m.value
                    [] m.operation = "sub" -> original - m.value
                    [] OTHER -> original
         IN [data EXCEPT ![m.byte_index + 1] = v]

\* ByteManipulation.apply: data is a sequence of bytes, byte_index counts from 0
ByteApply(m, data) ==
    IF m.byte_index >= Len(data) THEN data
    ELSE LET original == data[m.byte_index + 1]
             v == CASE m.operation = "set" -> BitAnd(m.value, 255)
                    [] m.operation = "and" -> BitAnd(original, m.value)
                    [] m.operation = "or"  -> BitOr(original, m.value)
                    [] m.operation = "xor" -> BitXor(original, m.value)
                    [] m.operation = "add" -> (original + m.value) % 256
                    [] m.operation = "sub" -> (original - m.value) % 256
                    [] OTHER -> original
         IN [data EXCEPT ![m.byte_index + 1] = v]

RECURSIVE ApplyAll(_, _)
ApplyAll(manips, data) ==
    IF manips = <<>> THEN data
    ELSE ApplyAll(Tail(manips), ByteApply(Head(manips), data))

\* a matches that does not look at the rule's enabled flag
MatchesDisabled(rule, arb_id, msg_direction) ==
    IF rule.direction # "both" /\ rule.direction # msg_direction THEN FALSE
    ELSE IF rule.can_id >= 0
         THEN BitAnd(arb_id, rule.can_id_mask) = BitAnd(rule.can_id, rule.can_id_mask)
    ELSE TRUE

\* ManipulationRule.matches
Matches(rule, arb_id, msg_direction) ==
    IF ~rule.enabled THEN FALSE
    ELSE IF rule.direction # "both" /\ rule.direction # msg_direction THEN FALSE
    ELSE IF rule.can_id >= 0
         THEN BitAnd(arb_id, rule.can_id_mask) = BitAnd(rule.can_id, rule.can_id_mask)
    ELSE TRUE

\* an apply that returns extra_delay_ms whatever the action is
RuleApplyAnyDelay(rule, data) ==
    IF rule.action = "drop" THEN <<"drop", data, 0>>
    ELSE <<"forward", ApplyAll(rule.manipulations, data), rule.extra_delay_ms>>

\* ManipulationRule.apply: (action, modified_data, extra_delay_ms)
RuleApply(rule, data) ==
    IF rule.action = "drop" THEN <<"drop", data, 0>>
    ELSE <<"forward", ApplyAll(rule.manipulations, data),
           IF rule.action = "delay" THEN rule.extra_delay_ms ELSE 0>>

\* a loop in which the last matching rule wins
RECURSIVE LastMatch(_, _, _, _)
LastMatch(rs, arb_id, data, direction) ==
    IF rs = <<>> THEN <<"forward", data, 0>>
    ELSE IF Matches(rs[Len(rs)], arb_id, direction) THEN RuleApply(rs[Len(rs)], data)
    ELSE LastMatch(SubSeq(rs, 1, Len(rs) - 1), arb_id, data, direction)

\* for rule in self._rules: if rule.matches(...): return rule.apply(data);
\* after the loop (FORWARD, data, 0.0)
RECURSIVE FirstMatch(_, _, _, _)
FirstMatch(rs, arb_id, data, direction) ==
    IF rs = <<>> THEN <<"forward", data, 0>>
    ELSE IF Matches(Head(rs), arb_id, direction) THEN RuleApply(Head(rs), data)
    ELSE FirstMatch(Tail(rs), arb_id, data, direction)

\* ManipulationEngine.process
Process(engine_enabled, rs, arb_id, data, direction) ==
    IF ~engine_enabled THEN <<"forward", data, 0>>
    ELSE FirstMatch(rs, arb_id, data, direction)

\* rules the engine is configured with: a DROP rule for id 3, and a DELAY
\* rule for id 3 with a negative extra delay and a byte rewrite
DropRule ==
    [name |-> "drop3", can_id |-> 3, can_id_mask |-> 2047, direction |-> "both",
     action |-> "drop", manipulations |-> <<>>, enabled |-> TRUE,
     extra_delay_ms |-> 0]
DelayRule ==
    [name |-> "delay3", can_id |-> 3, can_id_mask |-> 2047, direction |-> "both",
     action |-> "delay",
     manipulations |-> <<[byte_index |-> 0, operation |-> "set", value |-> 255]>>,
     enabled |-> TRUE, extra_delay_ms |-> -2]

\* a FORWARD rule for id 2 in direction 0to1: byte 0 + 255, byte 1 (beyond
\* the payload) set to 7; its extra delay is not used by FORWARD
AddRule ==
    [name |-> "add2", can_id |-> 2, can_id_mask |-> 2047, direction |-> "0to1",
     action |-> "forward",
     manipulations |-> <<[byte_index |-> 0, operation |-> "add", value |-> 255],
                         [byte_index |-> 1, operation |-> "set", value |-> 7]>>,
     enabled |-> TRUE, extra_delay_ms |-> 1]

\* the frames the environment sends
FrameSet ==
    { [arb_id |-> i, data |-> <<i>>, is_extended_id |-> (i = 2)] : i \in {1, 2, 3} }

\* ------------------------------------------------------------------- heapq

RECURSIVE SeqLess(_, _)
\* bytes < bytes
SeqLess(a, b) ==
    IF b = <<>> THEN FALSE
    ELSE IF a = <<>> THEN TRUE
    ELSE IF Head(a) # Head(b) THEN Head(a) < Head(b)
    ELSE SeqLess(Tail(a), Tail(b))

\* tuple < tuple on (send_time, recv_time, arb_id, data, is_extended); the
\* field seq is the receive index of the frame and takes no part
EntryLess(a, b) ==
    IF a.send_time # b.send_time THEN a.send_time < b.send_time
    ELSE IF a.recv_time # b.recv_time THEN a.recv_time < b.recv_time
    ELSE IF a.arb_id # b.arb_id THEN a.arb_id < b.arb_id
    ELSE IF a.data # b.data THEN SeqLess(a.data, b.data)
    ELSE (~a.is_extended_id) /\ b.is_extended_id

RECURSIVE SiftDown(_, _, _, _)
\* heapq._siftdown(heap, startpos, pos) with newitem carried; positions from 0
SiftDown(heap, startpos, pos, newitem) ==
    IF pos > startpos
    THEN LET parentpos == (pos - 1) \div 2
             parent == heap[parentpos + 1]
         IN IF EntryLess(newitem, parent)
            THEN SiftDown([heap EXCEPT ![pos + 1] = parent], startpos, parentpos, newitem)
            ELSE [heap EXCEPT ![pos + 1] = newitem]
    ELSE [heap EXCEPT ![pos + 1] = newitem]

RECURSIVE SiftUpLoop(_, _, _)
\* the while loop of heapq._siftup: bubble the smaller child up to the leaf
SiftUpLoop(heap, pos, newitem) ==
    LET endpos == Len(heap)
        childpos == 2 * pos + 1
    IN IF childpos < endpos
       THEN LET rightpos == childpos + 1
                c == IF rightpos < endpos
                        /\ ~EntryLess(heap[childpos + 1], heap[rightpos + 1])
                     THEN rightpos ELSE childpos
            IN SiftUpLoop([heap EXCEPT ![pos + 1] = heap[c + 1]], c, newitem)
       ELSE <<heap, pos>>

\* heapq._siftup(heap, 0)
SiftUp(heap) ==
    LET r == SiftUpLoop(heap, 0, heap[1])
    IN SiftDown(r[1], 0, r[2], heap[1])

\* heapq.heappush
HeapPush(heap, item) == SiftDown(Append(heap, item), 0, Len(heap), item)

\* heapq.heappop: <<returnitem, heap>>
HeapPop(heap) ==
    LET lastelt == heap[Len(heap)]
        rest == SubSeq(heap, 1, Len(heap) - 1)
    IN IF rest = <<>> THEN <<lastelt, rest>>
       ELSE <<rest[1], SiftUp([rest EXCEPT ![1] = lastelt])>>

\* ------------------------------------------------------------------- state

VARIABLES
    running,          \* BidirectionalGateway._running
    ctl,              \* where the caller of start()/stop() is
    bus,              \* bus[i]: _bus0/_bus1 holds an open handle
    rpc,              \* rpc[d]: where the receiver of direction d is ("none": no thread)
    spc,              \* spc[d]: where the sender of direction d is
    cur,              \* cur[d]: the frame the receiver has in hand, or Nil
    out,              \* out[d]: the entry the sender has popped (msg_to_send), or Nil
    owner,            \* owner[d]: who holds stats.condition of direction d
    queue,            \* queue[d]: DirectionStats.queue, the heapq list
    received,         \* DirectionStats.received
    forwarded,        \* DirectionStats.forwarded
    dropped,          \* DirectionStats.dropped
    latency_samples,  \* DirectionStats.latency_samples
    enabled,          \* DirectionStats.enabled
    delay_ms,         \* _delay_ms
    jitter_ms,        \* _jitter_ms
    loss_pct,         \* _loss_pct
    logger,           \* _logger is set and its session is open
    rules,            \* ManipulationEngine._rules
    engine_enabled,   \* ManipulationEngine._enabled
    now,              \* time.time(), in ms
    injected,         \* frames the environment has delivered so far
    tx,               \* tx[i]: the frames bus.send has put on interface i, in order
    rows,             \* rows[d]: the CSV rows written for direction d, in order
    evicted,          \* evicted[d]: the frames popped by the over-capacity loop
    stale,            \* the frames that reset_all() of a start() found in a heap
    call,             \* the latest call of an engine or facade method: inputs, result
    manager,          \* GatewayManager: _config, _gateway is not None, events published
    glog              \* GatewayLogger: _config, _seq, the CSV file, writers open and never closed

life == <<running, ctl, bus>>
threads == <<rpc, spc, cur, out, owner>>
counters == <<received, forwarded, dropped>>
config == <<enabled, delay_ms, jitter_ms, loss_pct, logger, rules, engine_enabled>>
clock == <<now, injected>>
past == <<stale>>
aside == <<call, manager, glog>>
trace == <<tx, rows, evicted, past, aside>>

vars == <<life, threads, queue, counters, latency_samples, config, clock, trace>>

\* deque(maxlen=100)
LatencyWindow == 100

\* deque.append with maxlen
DequeAppend(dq, x) ==
    IF Len(dq) >= LatencyWindow THEN Append(Tail(dq), x) ELSE Append(dq, x)

\* max(0.0, value)
ClampJitter(v) == IF v > 0 THEN v ELSE 0

\* BidirectionalGateway.__init__ with the given settings, create_direction_pair(),
\* an engine holding the given rules; the facade, where there is one, holds
\* the same settings and has no gateway yet
Constructed(delay, loss, jitter, has_logger, rule_list) ==
    /\ running = FALSE
    /\ ctl = "idle"
    /\ bus = [i \in Ifaces |-> FALSE]
    /\ rpc = [d \in Dirs |-> "none"]
    /\ spc = [d \in Dirs |-> "none"]
    /\ cur = [d \in Dirs |-> Nil]
    /\ out = [d \in Dirs |-> Nil]
    /\ owner = [d \in Dirs |-> "none"]
    /\ queue = [d \in Dirs |-> <<>>]
    /\ received = [d \in Dirs |-> 0]
    /\ forwarded = [d \in Dirs |-> 0]
    /\ dropped = [d \in Dirs |-> 0]
    /\ latency_samples = [d \in Dirs |-> <<>>]
    /\ enabled = [d \in Dirs |-> TRUE]
    /\ delay_ms = delay
    /\ loss_pct = loss
    /\ jitter_ms = ClampJitter(jitter)
    /\ logger = has_logger
    /\ rules = rule_list
    /\ engine_enabled = TRUE
    /\ now = 0
    /\ injected = 0
    /\ tx = [i \in Ifaces |-> <<>>]
    /\ rows = [d \in Dirs |-> <<>>]
    /\ evicted = [d \in Dirs |-> {}]
    /\ stale = {}
    /\ call = Nil
    /\ manager = [config |-> [delay_ms |-> delay, loss_pct |-> loss, jitter_ms |-> jitter],
                  gateway |-> FALSE, events |-> <<>>, log_path |-> FALSE,
                  lifecycle |-> <<>>,
                  listeners |-> [t \in {"GATEWAY_STARTED", "SETTINGS_CHANGED"} |-> <<>>],
                  subscribed |-> [t \in {"GATEWAY_STARTED", "SETTINGS_CHANGED"} |->
                                    [cb \in {"a", "b", "bad"} |-> 0]]]
    /\ glog = [config |-> [delay_ms |-> 0, jitter_ms |-> 0, loss_pct |-> 0],
               seq |-> 0,
               csv |-> <<>>,
               session |-> has_logger,
               unclosed |-> 0]

\* the clock advances
Tick ==
    /\ now < MaxTime
    /\ now' = now + 1
    /\ UNCHANGED <<life, threads, queue, counters, latency_samples, config,
                   injected, trace>>

\* ----------------------------------------------------------------- setters

\* a delay setter that also moves the frames already queued to the new delay
SetDelayReschedules(v) ==
    /\ delay_ms' = v
    /\ queue' = [d \in Dirs |->
                   [k \in 1..Len(queue[d]) |->
                      [queue[d][k] EXCEPT !.send_time = queue[d][k].recv_time + v]]]
    /\ UNCHANGED <<life, threads, counters, latency_samples, clock, trace,
                   enabled, jitter_ms, loss_pct, logger, rules, engine_enabled>>

\* delay_ms.setter
SetDelay(v) ==
    /\ delay_ms' = v
    /\ UNCHANGED <<life, threads, queue, counters, latency_samples, clock, trace,
                   enabled, jitter_ms, loss_pct, logger, rules, engine_enabled>>

\* jitter_ms.setter
SetJitter(v) ==
    /\ jitter_ms' = ClampJitter(v)
    /\ UNCHANGED <<life, threads, queue, counters, latency_samples, clock, trace,
                   enabled, delay_ms, loss_pct, logger, rules, engine_enabled>>

\* loss_pct.setter
SetLoss(v) ==
    /\ loss_pct' = v
    /\ UNCHANGED <<life, threads, queue, counters, latency_samples, clock, trace,
                   enabled, delay_ms, jitter_ms, logger, rules, engine_enabled>>

\* set_direction_enabled(direction, enabled)
SetDirectionEnabled(d, flag) ==
    /\ enabled' = [enabled EXCEPT ![d] = flag]
    /\ UNCHANGED <<life, threads, queue, counters, latency_samples, clock, trace,
                   delay_ms, jitter_ms, loss_pct, logger, rules, engine_enabled>>

\* ManipulationEngine.enabled.setter
SetEngineEnabled(flag) ==
    /\ engine_enabled' = flag
    /\ UNCHANGED <<life, threads, queue, counters, latency_samples, clock, trace,
                   enabled, delay_ms, jitter_ms, loss_pct, logger, rules>>

\* ------------------------------------------------------------ start / stop

\* a clear_queue that leaves the entries in place
KeepQueue(q) == q

\* DirectionStats.clear_queue: self.queue.clear()
ClearQueue(q) == <<>>

\* start(): the guard, _running = True, reset_all() of both directions
Start ==
    /\ ctl = "idle"
    /\ IF running
       THEN UNCHANGED vars
       ELSE /\ running' = TRUE
            /\ received' = [d \in Dirs |-> 0]
            /\ forwarded' = [d \in Dirs |-> 0]
            /\ dropped' = [d \in Dirs |-> 0]
            /\ queue' = [d \in Dirs |-> ClearQueue(queue[d])]
            /\ latency_samples' = [d \in Dirs |-> <<>>]
            /\ stale' = stale \cup UNION {{queue[d][k].seq : k \in 1..Len(queue[d])} : d \in Dirs}
            /\ ctl' = "open0"
            /\ UNCHANGED <<bus, threads, config, clock, tx, rows, evicted, aside>>

\* start(): create_bus(iface0) returns a handle
StartOpen0 ==
    /\ ctl = "open0"
    /\ bus' = [bus EXCEPT ![0] = TRUE]
    /\ ctl' = "open1"
    /\ UNCHANGED <<running, threads, queue, counters, latency_samples, config,
                   clock, trace>>

\* start(): create_bus(iface1) returns a handle; the four threads are
\* created and started
ThreadsStarted ==
    /\ ctl = "open1"
    /\ bus' = [bus EXCEPT ![1] = TRUE]
    /\ rpc' = [d \in Dirs |-> "loop"]
    /\ spc' = [d \in Dirs |-> "loop"]
    /\ ctl' = "idle"
    /\ UNCHANGED <<running, cur, out, owner, queue, counters, latency_samples,
                   config, clock, tx, rows, evicted, past>>

\* start() called on the gateway itself
StartOpen1 == ThreadsStarted /\ UNCHANGED aside

\* start(): create_bus raises; the exception leaves start()
StartOpenFails ==
    /\ ctl \in {"open0", "open1"}
    /\ ctl' = "idle"
    /\ UNCHANGED <<running, bus, threads, queue, counters, latency_samples, config,
                   clock, trace>>

\* stop(): _running = False
Stop ==
    /\ ctl = "idle"
    /\ running' = FALSE
    /\ ctl' = "notify0"
    /\ UNCHANGED <<bus, threads, queue, counters, latency_samples, config,
                   clock, trace>>

\* a notify that wakes nobody
NotifyLost(pcs, d) == pcs

\* Condition.notify() / notify_all(): the waiting sender is woken
Notify(pcs, d) == IF pcs[d] = "wait" THEN [pcs EXCEPT ![d] = "woken"] ELSE pcs

\* stop(): with condition: condition.notify_all(), first 0to1 and then 1to0
StopNotify ==
    /\ ctl \in {"notify0", "notify1"}
    /\ LET d == IF ctl = "notify0" THEN "0to1" ELSE "1to0"
       IN /\ owner[d] = "none"
          /\ spc' = Notify(spc, d)
    /\ ctl' = IF ctl = "notify0" THEN "notify1" ELSE "join"
    /\ UNCHANGED <<running, bus, rpc, cur, out, owner, queue, counters,
                   latency_samples, config, clock, trace>>

\* a join that returns at once
NeverAlive(pc) == FALSE

\* Thread.is_alive()
WorkerAlive(pc) == pc \notin {"none", "done"}

\* stop(): the joins have returned; bus.shutdown(), the fields set to None
Joined ==
    /\ ctl = "join"
    /\ \A d \in Dirs : ~WorkerAlive(rpc[d]) /\ ~WorkerAlive(spc[d])
    /\ bus' = [i \in Ifaces |-> FALSE]
    /\ rpc' = [d \in Dirs |-> "none"]
    /\ spc' = [d \in Dirs |-> "none"]
    /\ ctl' = "idle"
    /\ UNCHANGED <<running, cur, out, owner, queue, counters, latency_samples,
                   clock, tx, rows, evicted, past>>

\* stop() called on the gateway itself
StopJoin == Joined /\ UNCHANGED <<config, aside>>

\* ---------------------------------------------------------- _receive_loop

\* while self._running (the loop head; also reached by continue and by the
\* except branch, which breaks when not running)
RecvLoopHead(d) ==
    /\ rpc[d] = "loop"
    /\ rpc' = [rpc EXCEPT ![d] = IF running THEN "recv" ELSE "done"]
    /\ UNCHANGED <<life, spc, cur, out, owner, queue, counters, latency_samples,
                   config, clock, trace>>

\* bus.recv(timeout=0.1) returns None (or raises): continue
RecvTimeout(d) ==
    /\ rpc[d] = "recv"
    /\ rpc' = [rpc EXCEPT ![d] = "loop"]
    /\ UNCHANGED <<life, spc, cur, out, owner, queue, counters, latency_samples,
                   config, clock, trace>>

\* a check of the flag that lets every frame pass
AlwaysEnabled(d) == TRUE

\* with self._direction_lock: direction_enabled = stats.enabled
DirectionEnabled(d) == enabled[d]

\* bus.recv returns frame f: the enabled check, recv_time = time.time(),
\* _increment_received
RecvFrame(d, f) ==
    /\ rpc[d] = "recv"
    /\ injected < MaxFrames
    /\ injected' = injected + 1
    /\ IF DirectionEnabled(d)
       THEN /\ received' = [received EXCEPT ![d] = @ + 1]
            /\ cur' = [cur EXCEPT ![d] =
                         [recv_time |-> now, arb_id |-> f.arb_id, data |-> f.data,
                          is_extended_id |-> f.is_extended_id, seq |-> injected + 1,
                          orig |-> [arb_id |-> f.arb_id, data |-> f.data,
                                    is_extended_id |-> f.is_extended_id,
                                    iface |-> SrcIface(d)]]]
            /\ rpc' = [rpc EXCEPT ![d] = "rx"]
       ELSE /\ rpc' = [rpc EXCEPT ![d] = "loop"]
            /\ UNCHANGED <<received, cur>>
    /\ UNCHANGED <<life, spc, out, owner, queue, forwarded, dropped,
                   latency_samples, config, now, trace>>

\* self._seq += 1
Bump(g) == [g EXCEPT !.seq = @ + 1]

\* self._csv_writer.writerow(row): the file gets a row numbered n
WriteRow(g, n) == [g EXCEPT !.csv = Append(@, n)]

\* _write_csv_row run by one thread without interruption
Logged(g) == WriteRow(Bump(g), g.seq + 1)

\* _write_csv_row: the row written for a frame, with the sequence number
\* and the configuration the logger holds
Row(event, frame) ==
    [event |-> event, frame |-> frame, seq |-> glog.seq + 1,
     delay_ms |-> glog.config.delay_ms, jitter_ms |-> glog.config.jitter_ms,
     loss_pct |-> glog.config.loss_pct]

\* logger.log_rx raises: except Exception, the frame is abandoned
RecvLogRxFails(d) ==
    /\ rpc[d] = "rx"
    /\ logger
    /\ rpc' = [rpc EXCEPT ![d] = "loop"]
    /\ cur' = [cur EXCEPT ![d] = Nil]
    /\ UNCHANGED <<life, spc, out, owner, queue, counters, latency_samples,
                   config, clock, trace>>

\* a receiver that does not consult the engine
NoManipulator(d) == <<"forward", cur[d].data, 0>>

\* self._manipulator.process(msg.arbitration_id, msg_data, direction)
Manipulate(d) == Process(engine_enabled, rules, cur[d].arb_id, cur[d].data, d)

\* _increment_dropped and logger.log_drop, which writes its row when logok
\* and raises in writerow, after self._seq += 1, otherwise; continue
Drop(d, logok) ==
    /\ dropped' = [dropped EXCEPT ![d] = @ + 1]
    /\ rows' = IF logger /\ logok
               THEN [rows EXCEPT ![d] = Append(@, Row("dropped", cur[d].seq))]
               ELSE rows
    /\ glog' = IF ~logger THEN glog ELSE IF logok THEN Logged(glog) ELSE Bump(glog)
    /\ rpc' = [rpc EXCEPT ![d] = "loop"]
    /\ cur' = [cur EXCEPT ![d] = Nil]
    /\ UNCHANGED <<life, spc, out, owner, queue, received, forwarded,
                   latency_samples, config, clock, tx, evicted, past, call, manager>>

\* _increment_dropped and logger.log_drop (writes its row, or raises), continue
RecvDrop(d) == \E logok \in BOOLEAN : Drop(d, logok)

\* action == Action.DROP
RecvRuleDrop(d) ==
    /\ rpc[d] = "rx"
    /\ Manipulate(d)[1] = "drop"
    /\ RecvDrop(d)

\* the loss condition without the loss_pct > 0 guard and with <=
LossHitInclusive(r) == r <= loss_pct

\* self._loss_pct > 0 and random.random() * 100 < self._loss_pct
LossHit(r) == loss_pct > 0 /\ r < loss_pct

\* a rule drops the frame and log_drop writes its row
RecvRuleDropLogged(d) ==
    /\ rpc[d] = "rx"
    /\ Manipulate(d)[1] = "drop"
    /\ Drop(d, TRUE)

\* the loss step drops the frame and log_drop writes its row
RecvLossDropLogged(d) ==
    /\ rpc[d] = "rx"
    /\ Manipulate(d)[1] # "drop"
    /\ \E r \in RandomPcts : LossHit(r)
    /\ Drop(d, TRUE)

\* the loss step drops the frame
RecvLossDrop(d) ==
    /\ rpc[d] = "rx"
    /\ Manipulate(d)[1] # "drop"
    /\ \E r \in RandomPcts : LossHit(r)
    /\ RecvDrop(d)

\* random.uniform(-jitter_ms, jitter_ms) if jitter_ms > 0 else 0.0
JitterSamples == IF jitter_ms > 0 THEN (0 - jitter_ms) .. jitter_ms ELSE {0}

\* max(a, b)
Max(a, b) == IF a >= b THEN a ELSE b

\* send_time = recv_time + base_delay + jitter + rule_delay, without the max
SendTimeUnclamped(recv_time, base_delay, jitter, rule_delay) ==
    recv_time + base_delay + jitter + rule_delay

\* send_time = max(recv_time + base_delay + jitter + rule_delay, recv_time)
SendTime(recv_time, base_delay, jitter, rule_delay) ==
    Max(recv_time + base_delay + jitter + rule_delay, recv_time)

\* the frame passes the rules and the loss step: send_time is computed
RecvSchedule(d) ==
    /\ rpc[d] = "rx"
    /\ Manipulate(d)[1] # "drop"
    /\ \E r \in RandomPcts : ~LossHit(r)
    /\ \E jitter \in JitterSamples :
          cur' = [cur EXCEPT ![d] =
                    [send_time |-> SendTime(cur[d].recv_time, delay_ms, jitter,
                                            Manipulate(d)[3]),
                     recv_time |-> cur[d].recv_time,
                     arb_id |-> cur[d].arb_id,
                     data |-> Manipulate(d)[2],
                     is_extended_id |-> cur[d].is_extended_id,
                     seq |-> cur[d].seq,
                     orig |-> cur[d].orig,
                     eng |-> engine_enabled]]
    /\ rpc' = [rpc EXCEPT ![d] = "push"]
    /\ UNCHANGED <<life, spc, out, owner, queue, counters, latency_samples,
                   config, clock, trace>>

\* with stats.condition: the receiver takes the heap lock
RecvLock(d) ==
    /\ rpc[d] = "push"
    /\ owner[d] = "none"
    /\ owner' = [owner EXCEPT ![d] = "recv"]
    /\ rpc' = [rpc EXCEPT ![d] = "crit"]
    /\ UNCHANGED <<life, spc, cur, out, queue, counters, latency_samples,
                   config, clock, trace>>

\* stats.queue_size > MAX_QUEUE_SIZE, an off-by-one of the loop condition
QueueOverFull(d) == Len(queue[d]) > MAX_QUEUE_SIZE

\* stats.queue_size >= self.MAX_QUEUE_SIZE
QueueFull(d) == Len(queue[d]) >= MAX_QUEUE_SIZE

\* while the queue is full: heappop, _increment_dropped
RecvEvict(d) ==
    /\ rpc[d] = "crit"
    /\ QueueFull(d)
    /\ queue' = [queue EXCEPT ![d] = HeapPop(@)[2]]
    /\ dropped' = [dropped EXCEPT ![d] = @ + 1]
    /\ evicted' = [evicted EXCEPT ![d] = @ \cup {HeapPop(queue[d])[1].seq}]
    /\ UNCHANGED <<life, threads, received, forwarded, latency_samples,
                   config, clock, tx, rows, past, aside>>

\* heappush, condition.notify(), log_queue (which does nothing), the lock
\* is released
RecvPush(d) ==
    /\ rpc[d] = "crit"
    /\ ~QueueFull(d)
    /\ queue' = [queue EXCEPT ![d] = HeapPush(@, cur[d])]
    /\ spc' = Notify(spc, d)
    /\ owner' = [owner EXCEPT ![d] = "none"]
    /\ rpc' = [rpc EXCEPT ![d] = "loop"]
    /\ cur' = [cur EXCEPT ![d] = Nil]
    /\ UNCHANGED <<life, out, counters, latency_samples, config, clock, trace>>

\* ------------------------------------------------------------- _send_loop

\* while self._running (outer): with stats.condition
SendLoopHead(d) ==
    /\ spc[d] = "loop"
    /\ IF running
       THEN /\ owner[d] = "none"
            /\ owner' = [owner EXCEPT ![d] = "send"]
            /\ spc' = [spc EXCEPT ![d] = "inner"]
       ELSE /\ spc' = [spc EXCEPT ![d] = "done"]
            /\ UNCHANGED owner
    /\ UNCHANGED <<life, rpc, cur, out, queue, counters, latency_samples,
                   config, clock, trace>>

\* while self._running (inner); when false the with block is left with no
\* message and the outer loop head is next
SendInnerHead(d) ==
    /\ spc[d] = "inner"
    /\ IF running
       THEN /\ spc' = [spc EXCEPT ![d] = "peek"]
            /\ UNCHANGED owner
       ELSE /\ spc' = [spc EXCEPT ![d] = "loop"]
            /\ owner' = [owner EXCEPT ![d] = "none"]
    /\ UNCHANGED <<life, rpc, cur, out, queue, counters, latency_samples,
                   config, clock, trace>>

\* a sender that does not look at the clock
DueAlways(d) == queue[d] # <<>>

\* wait_time <= 0 for the head of the heap
Due(d) == queue[d] # <<>> /\ queue[d][1].send_time - now <= 0

\* the heap is empty or its head is not due: condition.wait(timeout)
\* releases the lock
SendWait(d) ==
    /\ spc[d] = "peek"
    /\ ~Due(d)
    /\ spc' = [spc EXCEPT ![d] = "wait"]
    /\ owner' = [owner EXCEPT ![d] = "none"]
    /\ UNCHANGED <<life, rpc, cur, out, queue, counters, latency_samples,
                   config, clock, trace>>

\* condition.wait returns: the lock is taken again
Reacquire(d) ==
    /\ owner[d] = "none"
    /\ owner' = [owner EXCEPT ![d] = "send"]
    /\ spc' = [spc EXCEPT ![d] = "inner"]
    /\ UNCHANGED <<life, rpc, cur, out, queue, counters, latency_samples,
                   config, clock, trace>>

\* condition.wait returns because its timeout has run out
SendWaitTimeout(d) ==
    /\ spc[d] = "wait"
    /\ Reacquire(d)

\* condition.wait returns because the condition was notified
SendWakeNotified(d) ==
    /\ spc[d] = "woken"
    /\ Reacquire(d)

\* the head is due: heappop, break, the lock is released
SendPop(d) ==
    /\ spc[d] = "peek"
    /\ Due(d)
    /\ out' = [out EXCEPT ![d] = HeapPop(queue[d])[1]]
    /\ queue' = [queue EXCEPT ![d] = HeapPop(@)[2]]
    /\ owner' = [owner EXCEPT ![d] = "none"]
    /\ spc' = [spc EXCEPT ![d] = "send"]
    /\ UNCHANGED <<life, rpc, cur, counters, latency_samples, config, clock, trace>>

\* bus.send raises: except Exception: _increment_dropped
SendFails(d) ==
    /\ spc[d] = "send"
    /\ dropped' = [dropped EXCEPT ![d] = @ + 1]
    /\ out' = [out EXCEPT ![d] = Nil]
    /\ spc' = [spc EXCEPT ![d] = "loop"]
    /\ UNCHANGED <<life, rpc, cur, owner, queue, received, forwarded,
                   latency_samples, config, clock, trace>>

\* the frame as bus.send puts it on the destination interface
Sent(d) ==
    [dir |-> d, seq |-> out[d].seq, arb_id |-> out[d].arb_id, data |-> out[d].data,
     is_extended_id |-> out[d].is_extended_id, send_time |-> out[d].send_time,
     recv_time |-> out[d].recv_time, orig |-> out[d].orig, eng |-> out[d].eng]

\* bus.send returns: the latency sample, _increment_forwarded
SendDone(d) ==
    /\ tx' = [tx EXCEPT ![DstIface(d)] = Append(@, Sent(d))]
    /\ latency_samples' = [latency_samples EXCEPT ![d] =
                             DequeAppend(@, now - out[d].recv_time)]
    /\ forwarded' = [forwarded EXCEPT ![d] = @ + 1]
    /\ out' = [out EXCEPT ![d] = Nil]
    /\ spc' = [spc EXCEPT ![d] = "loop"]

\* bus.send returns and log_tx, when a logger is set, writes its row
SendOk(d) ==
    /\ spc[d] = "send"
    /\ SendDone(d)
    /\ rows' = IF logger
               THEN [rows EXCEPT ![d] = Append(@, Row("forwarded", out[d].seq))]
               ELSE rows
    /\ glog' = IF logger THEN Logged(glog) ELSE glog
    /\ UNCHANGED <<life, rpc, cur, owner, queue, received, dropped, config, clock,
                   evicted, past, call, manager>>

\* bus.send returns and log_tx raises in the BLF writer, before the CSV row:
\* the except branch of the send runs
SendOkLogTxFails(d) ==
    /\ spc[d] = "send"
    /\ logger
    /\ SendDone(d)
    /\ dropped' = [dropped EXCEPT ![d] = @ + 1]
    /\ UNCHANGED <<life, rpc, cur, owner, queue, received, config, clock,
                   rows, evicted, past, aside>>

\* ---------------------------------- _write_csv_row, statement by statement

\* the row a thread builds after its self._seq += 1: "seq": self._seq is
\* read when the dictionary is built
RowNow(event, frame) == [Row(event, frame) EXCEPT !.seq = glog.seq]

\* a rule or the loss step drops the frame: _increment_dropped, log_drop up
\* to and including self._seq += 1
RecvDropBump(d) ==
    /\ rpc[d] = "rx"
    /\ logger /\ glog.session
    /\ \/ Manipulate(d)[1] = "drop"
       \/ \E r \in RandomPcts : LossHit(r)
    /\ dropped' = [dropped EXCEPT ![d] = @ + 1]
    /\ glog' = Bump(glog)
    /\ rpc' = [rpc EXCEPT ![d] = "droprow"]
    /\ UNCHANGED <<life, spc, cur, out, owner, queue, received, forwarded,
                   latency_samples, config, clock, tx, rows, evicted, past,
                   call, manager>>

\* log_drop: the row is built and written; continue
RecvDropRow(d) ==
    /\ rpc[d] = "droprow"
    /\ glog.session
    /\ rows' = [rows EXCEPT ![d] = Append(@, RowNow("dropped", cur[d].seq))]
    /\ glog' = WriteRow(glog, glog.seq)
    /\ rpc' = [rpc EXCEPT ![d] = "loop"]
    /\ cur' = [cur EXCEPT ![d] = Nil]
    /\ UNCHANGED <<life, spc, out, owner, queue, counters, latency_samples,
                   config, clock, tx, evicted, past, call, manager>>

\* bus.send returns: the latency sample, _increment_forwarded, log_tx up to
\* and including self._seq += 1
SendBump(d) ==
    /\ spc[d] = "send"
    /\ logger /\ glog.session
    /\ tx' = [tx EXCEPT ![DstIface(d)] = Append(@, Sent(d))]
    /\ latency_samples' = [latency_samples EXCEPT ![d] =
                             DequeAppend(@, now - out[d].recv_time)]
    /\ forwarded' = [forwarded EXCEPT ![d] = @ + 1]
    /\ glog' = Bump(glog)
    /\ spc' = [spc EXCEPT ![d] = "txrow"]
    /\ UNCHANGED <<life, rpc, cur, out, owner, queue, received, dropped, config,
                   clock, rows, evicted, past, call, manager>>

\* log_tx: the row is built and written
SendRow(d) ==
    /\ spc[d] = "txrow"
    /\ glog.session
    /\ rows' = [rows EXCEPT ![d] = Append(@, RowNow("forwarded", out[d].seq))]
    /\ glog' = WriteRow(glog, glog.seq)
    /\ out' = [out EXCEPT ![d] = Nil]
    /\ spc' = [spc EXCEPT ![d] = "loop"]
    /\ UNCHANGED <<life, rpc, cur, owner, queue, counters, latency_samples,
                   config, clock, tx, evicted, past, call, manager>>

\* log_tx: GatewayLogger.stop has closed the CSV file and set _csv_writer to
\* None since the check at the head of _write_csv_row; writerow raises, the
\* sender's except clause counts the frame as dropped
SendRowClosed(d) ==
    /\ spc[d] = "txrow"
    /\ ~glog.session
    /\ dropped' = [dropped EXCEPT ![d] = @ + 1]
    /\ out' = [out EXCEPT ![d] = Nil]
    /\ spc' = [spc EXCEPT ![d] = "loop"]
    /\ UNCHANGED <<life, rpc, cur, owner, queue, received, forwarded,
                   latency_samples, config, clock, trace>>

\* ------------------------------------------------------------ specification

\* start() without an open failure
StartUp ==
    \/ Start
    \/ StartOpen0
    \/ StartOpen1

\* stop()
ShutDown ==
    \/ Stop
    \/ StopNotify
    \/ StopJoin

\* The workers of direction d are between two frames: each is at the head of
\* its loop, holding no frame and no lock.
Between(d) ==
    /\ rpc[d] \in {"none", "loop", "done"}
    /\ spc[d] \in {"none", "loop", "done"}

\* The two directions share no heap, counter or lock, so their steps commute;
\* the specifications of the safety properties interleave the directions
\* frame by frame: the workers of d step while the other direction is between
\* two frames.
OneAtATime(d) == \A e \in Dirs \ {d} : Between(e)

\* no frame has arrived for the other direction
OnlyTraffic(d) == \A e \in Dirs \ {d} : received[e] = 0

\* the steps of the receiver and the sender of direction d when the bus works
\* and there is no logger, rule drop or loss
Steps(d) ==
    \/ OneAtATime(d) /\ RecvLoopHead(d)
    \/ OneAtATime(d) /\ RecvTimeout(d)
    \/ OneAtATime(d) /\ RecvSchedule(d)
    \/ OneAtATime(d) /\ RecvLock(d)
    \/ OneAtATime(d) /\ RecvEvict(d)
    \/ OneAtATime(d) /\ RecvPush(d)
    \/ OneAtATime(d) /\ SendLoopHead(d)
    \/ OneAtATime(d) /\ SendInnerHead(d)
    \/ OneAtATime(d) /\ SendWait(d)
    \/ OneAtATime(d) /\ SendWaitTimeout(d)
    \/ OneAtATime(d) /\ SendWakeNotified(d)
    \/ OneAtATime(d) /\ SendPop(d)
    \/ OneAtATime(d) /\ SendOk(d)

\* the workers of direction d, frames arriving on both interfaces
Workers(d) ==
    \/ Steps(d)
    \/ OneAtATime(d) /\ \E f \in FrameSet : RecvFrame(d, f)

\* the workers of direction d, the frames of a run arriving on one interface
WorkersOneWay(d) ==
    \/ Steps(d)
    \/ OneAtATime(d) /\ OnlyTraffic(d) /\ \E f \in FrameSet : RecvFrame(d, f)

\* the steps in which the bus or the logger fails, a rule drops or the loss
\* step hits
Failures(d) ==
    \/ OneAtATime(d) /\ RecvLogRxFails(d)
    \/ OneAtATime(d) /\ RecvRuleDrop(d)
    \/ OneAtATime(d) /\ RecvLossDrop(d)
    \/ OneAtATime(d) /\ SendFails(d)
    \/ OneAtATime(d) /\ SendOkLogTxFails(d)

\* Accounting: a logger, a DROP rule and 50 % loss; bus.send and the logger
\* may fail; the delay is 0 and the clock stands still.
Init == Constructed(0, 50, 0, TRUE, <<DropRule>>)

Next ==
    \/ StartUp
    \/ \E d \in Dirs : Workers(d) \/ Failures(d)

Spec == Init /\ [][Next]_vars

\* Ordering: no rule, no loss, the clock runs, the delay is changed while the
\* gateway runs, the jitter is 0 or 1.
InitOrder == \E j \in JitterValues : Constructed(1, 0, j, FALSE, <<>>)

NextOrder ==
    \/ StartUp
    \/ Tick
    \/ \E v \in DelayValues : SetDelay(v)
    \/ \E d \in Dirs : WorkersOneWay(d)

SpecOrder == InitOrder /\ [][NextOrder]_vars

\* Scheduling: a jitter above the delay and a rule with a negative extra
\* delay, the clock runs.
InitClamp == \E dl \in DelayValues : Constructed(dl, 0, 1, FALSE, <<DelayRule>>)

NextClamp ==
    \/ StartUp
    \/ Tick
    \/ \E d \in Dirs : WorkersOneWay(d)

SpecClamp == InitClamp /\ [][NextClamp]_vars

\* Lifecycle: start(), open failures and stop() in any order around the
\* traffic; with the delay 1 and the clock standing still a queued frame is
\* never due.
InitLife == \E dl \in DelayValues : Constructed(dl, 0, 0, FALSE, <<>>)

NextLife ==
    \/ StartUp
    \/ StartOpenFails
    \/ ShutDown
    \/ \E d \in Dirs : Workers(d)

SpecLife == InitLife /\ [][NextLife]_vars

\* Shutdown: the four workers run freely, the frames of a run arrive on one
\* interface and carry the id 1.  Every step of a worker and of stop() is
\* taken when it stays possible; a timeout of condition.wait is not relied on.
Run(d) ==
    \/ RecvLoopHead(d)
    \/ RecvTimeout(d)
    \/ RecvSchedule(d)
    \/ RecvLock(d)
    \/ RecvEvict(d)
    \/ RecvPush(d)
    \/ SendLoopHead(d)
    \/ SendInnerHead(d)
    \/ SendWait(d)
    \/ SendWaitTimeout(d)
    \/ SendWakeNotified(d)
    \/ SendPop(d)
    \/ SendOk(d)

NextStop ==
    \/ StartUp
    \/ ShutDown
    \/ \E d \in Dirs : Run(d)
    \/ \E d \in Dirs :
          OnlyTraffic(d) /\ \E f \in {g \in FrameSet : g.arb_id = 1} : RecvFrame(d, f)

Progress(d) ==
    /\ WF_vars(RecvLoopHead(d))
    /\ WF_vars(RecvTimeout(d))
    /\ WF_vars(RecvSchedule(d))
    /\ WF_vars(RecvLock(d))
    /\ WF_vars(RecvEvict(d))
    /\ WF_vars(RecvPush(d))
    /\ WF_vars(SendLoopHead(d))
    /\ WF_vars(SendInnerHead(d))
    /\ WF_vars(SendWait(d))
    /\ WF_vars(SendWakeNotified(d))
    /\ WF_vars(SendPop(d))
    /\ WF_vars(SendOk(d))

SpecStop ==
    /\ InitLife
    /\ [][NextStop]_vars
    /\ WF_vars(StopNotify)
    /\ WF_vars(StopJoin)
    /\ \A d \in Dirs : Progress(d)

\* Draining: the gateway is started and stays running, the delay is 0 and
\* the jitter 1, the frames arrive on one interface before the last tick of
\* the clock.  The workers take every step that stays possible, a timed
\* wait runs out, and the clock advances.
InitDrain == Constructed(0, 0, 1, FALSE, <<>>)

NextDrain ==
    \/ StartUp
    \/ Tick
    \/ \E d \in Dirs : Run(d)
    \/ \E d \in Dirs :
          /\ OnlyTraffic(d) /\ now < MaxTime
          /\ \E f \in {g \in FrameSet : g.arb_id = 1} : RecvFrame(d, f)

SpecDrain ==
    /\ InitDrain
    /\ [][NextDrain]_vars
    /\ WF_vars(Tick)
    /\ \A d \in Dirs : Progress(d) /\ WF_vars(SendWaitTimeout(d))

\* Direction control: a logger, no rule, no loss; the directions are enabled
\* and disabled at any time.
InitEnable == Constructed(0, 0, 0, TRUE, <<>>)

NextEnable ==
    \/ StartUp
    \/ \E d \in Dirs, flag \in BOOLEAN : SetDirectionEnabled(d, flag)
    \/ \E d \in Dirs : Workers(d)

SpecEnable == InitEnable /\ [][NextEnable]_vars

\* Loss: no rule, no logger, the loss percentage is 0, 50 or 100.
InitLoss == \E l \in LossValues : Constructed(0, l, 0, FALSE, <<>>)

NextLoss ==
    \/ StartUp
    \/ \E d \in Dirs : Workers(d)
    \/ \E d \in Dirs : OneAtATime(d) /\ RecvLossDrop(d)

SpecLoss == InitLoss /\ [][NextLoss]_vars

\* Rules: a logger whose writes succeed, a DROP rule for id 3 and a FORWARD
\* rule with byte operations for id 2 in direction 0to1; the loss percentage
\* is 0, 50 or 100.
InitRules == \E l \in LossValues : Constructed(0, l, 0, TRUE, <<DropRule, AddRule>>)

NextRules ==
    \/ StartUp
    \/ \E d \in Dirs : Workers(d)
    \/ \E d \in Dirs : OneAtATime(d) /\ RecvRuleDropLogged(d)
    \/ \E d \in Dirs : OneAtATime(d) /\ RecvLossDropLogged(d)

SpecRules == InitRules /\ [][NextRules]_vars

\* Engine switch: the rules of SpecRules, no loss, a logger whose writes
\* succeed; the engine is switched off and on while the gateway runs.
InitManip == Constructed(0, 0, 0, TRUE, <<DropRule, AddRule>>)

NextManip ==
    \/ StartUp
    \/ \E flag \in BOOLEAN : SetEngineEnabled(flag)
    \/ \E d \in Dirs : Workers(d)
    \/ \E d \in Dirs : OneAtATime(d) /\ RecvRuleDropLogged(d)

SpecManip == InitManip /\ [][NextManip]_vars

\* the workers of direction d with the logger's row written statement by
\* statement
RowWorkers(d) ==
    \/ OneAtATime(d) /\ RecvLoopHead(d)
    \/ OneAtATime(d) /\ RecvTimeout(d)
    \/ OneAtATime(d) /\ \E f \in FrameSet : RecvFrame(d, f)
    \/ OneAtATime(d) /\ RecvDropBump(d)
    \/ OneAtATime(d) /\ RecvDropRow(d)
    \/ OneAtATime(d) /\ RecvSchedule(d)
    \/ OneAtATime(d) /\ RecvLock(d)
    \/ OneAtATime(d) /\ RecvEvict(d)
    \/ OneAtATime(d) /\ RecvPush(d)
    \/ OneAtATime(d) /\ SendLoopHead(d)
    \/ OneAtATime(d) /\ SendInnerHead(d)
    \/ OneAtATime(d) /\ SendWait(d)
    \/ OneAtATime(d) /\ SendWaitTimeout(d)
    \/ OneAtATime(d) /\ SendWakeNotified(d)
    \/ OneAtATime(d) /\ SendPop(d)
    \/ OneAtATime(d) /\ SendBump(d)
    \/ OneAtATime(d) /\ SendRow(d)

\* Rows: a logger, a DROP rule for id 3, no loss; the receiver and the sender
\* of a direction write their rows while the other runs.
InitSeq == Constructed(0, 0, 0, TRUE, <<DropRule>>)

NextSeq ==
    \/ StartUp
    \/ \E d \in Dirs : RowWorkers(d)

SpecSeq == InitSeq /\ [][NextSeq]_vars

\* ---------------------------------------------------------- the event bus

\* the event types the model subscribes to
EventTypes == {"GATEWAY_STARTED", "SETTINGS_CHANGED"}

\* the callbacks: "bad" raises when it is called
Callbacks == {"a", "b", "bad"}

Raises(cb) == cb = "bad"

\* the data published
BusData == {0, 1}

\* subscriptions per event type the model follows
MaxListeners == 3

\* list.remove(x): the first occurrence goes; ValueError is suppressed
RECURSIVE RemoveFirst(_, _)
RemoveFirst(s, x) ==
    IF s = <<>> THEN <<>>
    ELSE IF Head(s) = x THEN Tail(s)
    ELSE <<Head(s)>> \o RemoveFirst(Tail(s), x)

\* a publish whose loop has no try: the first exception leaves it
RECURSIVE DispatchUncaught(_, _)
DispatchUncaught(cbs, data) ==
    IF cbs = <<>> THEN [called |-> <<>>, raised |-> FALSE]
    ELSE IF Raises(Head(cbs))
         THEN [called |-> <<[cb |-> Head(cbs), data |-> data]>>, raised |-> TRUE]
         ELSE LET rest == DispatchUncaught(Tail(cbs), data)
              IN [called |-> <<[cb |-> Head(cbs), data |-> data]>> \o rest.called,
                  raised |-> rest.raised]

\* the loop of publish: callback(data) inside try / except Exception, which
\* logs and goes on
RECURSIVE Dispatch(_, _)
Dispatch(cbs, data) ==
    IF cbs = <<>> THEN [called |-> <<>>, raised |-> FALSE]
    ELSE LET rest == Dispatch(Tail(cbs), data)
         IN [called |-> <<[cb |-> Head(cbs), data |-> data]>> \o rest.called,
             raised |-> rest.raised]

\* EventBus.subscribe: the callback is appended to the list of the type
Subscribe(t, cb) ==
    /\ Len(manager.listeners[t]) < MaxListeners
    /\ manager' = [manager EXCEPT !.listeners[t] = Append(@, cb),
                                  !.subscribed[t][cb] = @ + 1]
    /\ UNCHANGED <<life, threads, queue, counters, latency_samples, config, clock,
                   tx, rows, evicted, past, call, glog>>

\* EventBus.unsubscribe
Unsubscribe(t, cb) ==
    /\ manager' = [manager EXCEPT !.listeners[t] = RemoveFirst(@, cb),
                                  !.subscribed[t][cb] = IF @ > 0 THEN @ - 1 ELSE 0]
    /\ UNCHANGED <<life, threads, queue, counters, latency_samples, config, clock,
                   tx, rows, evicted, past, call, glog>>

\* EventBus.publish
BusPublish(t, data) ==
    /\ call' = [fn |-> "publish", type |-> t, data |-> data,
                listeners |-> manager.listeners,
                subscribed |-> manager.subscribed,
                ret |-> Dispatch(manager.listeners[t], data)]
    /\ UNCHANGED <<life, threads, queue, counters, latency_samples, config, clock,
                   tx, rows, evicted, past, manager, glog>>

\* Bus: callbacks subscribe and unsubscribe, then one event is published.
InitBus == Constructed(0, 0, 0, FALSE, <<>>)

NextBus ==
    /\ call = Nil
    /\ \/ \E t \in EventTypes, cb \in Callbacks : Subscribe(t, cb)
       \/ \E t \in EventTypes, cb \in Callbacks : Unsubscribe(t, cb)
       \/ \E t \in EventTypes, data \in BusData : BusPublish(t, data)

SpecBus == InitBus /\ [][NextBus]_vars

\* subscribe and unsubscribe calls made by callbacks during one publish
MaxReentrant == 1

InDispatch == call # Nil /\ call.fn = "dispatch" /\ ~call.done

\* publish(t, data) reaches its for loop; the iterator is over the list of
\* the bus itself, not over a copy
DispatchBegin(t, data) ==
    /\ call = Nil
    /\ call' = [fn |-> "dispatch", type |-> t, data |-> data,
                began |-> manager.listeners[t], index |-> 1, called |-> <<>>,
                changes |-> 0, done |-> FALSE]
    /\ UNCHANGED <<life, threads, queue, counters, latency_samples, config, clock,
                   tx, rows, evicted, past, manager, glog>>

\* the list after the callback that is called has run: it leaves the bus
\* alone (change = "none"), subscribes cb or unsubscribes cb
Changed(listeners, change, cb) ==
    IF change = "subscribe" THEN Append(listeners, cb)
    ELSE IF change = "unsubscribe" THEN RemoveFirst(listeners, cb)
    ELSE listeners

\* one turn of the loop: the list iterator yields the element at its index,
\* the callback runs (and may change the list), the index moves on
DispatchCall(change, cb) ==
    /\ InDispatch
    /\ call.index <= Len(manager.listeners[call.type])
    /\ change # "none" => call.changes < MaxReentrant
    /\ change = "subscribe" => Len(manager.listeners[call.type]) < MaxListeners
    /\ call' = [call EXCEPT
                  !.called = Append(@, manager.listeners[call.type][call.index]),
                  !.index = @ + 1,
                  !.changes = IF change = "none" THEN @ ELSE @ + 1]
    /\ manager' = [manager EXCEPT
                     !.listeners[call.type] = Changed(@, change, cb),
                     !.subscribed[call.type][cb] =
                         IF change = "subscribe" THEN @ + 1
                         ELSE IF change = "unsubscribe" /\ @ > 0 THEN @ - 1
                         ELSE @]
    /\ UNCHANGED <<life, threads, queue, counters, latency_samples, config, clock,
                   tx, rows, evicted, past, glog>>

\* the iterator is exhausted: publish returns
DispatchEnd ==
    /\ InDispatch
    /\ call.index > Len(manager.listeners[call.type])
    /\ call' = [call EXCEPT !.done = TRUE]
    /\ UNCHANGED <<life, threads, queue, counters, latency_samples, config, clock,
                   tx, rows, evicted, past, manager, glog>>

\* Dispatch: callbacks are subscribed, then one event is published and its
\* callbacks subscribe or unsubscribe while they are called.
InitDispatch == Constructed(0, 0, 0, FALSE, <<>>)

NextDispatch ==
    \/ \E t \in EventTypes, cb \in Callbacks : call = Nil /\ Subscribe(t, cb)
    \/ \E t \in EventTypes, data \in BusData : DispatchBegin(t, data)
    \/ \E cb \in Callbacks : DispatchCall("none", cb)
    \/ \E cb \in Callbacks : DispatchCall("subscribe", cb)
    \/ \E cb \in Callbacks : DispatchCall("unsubscribe", cb)
    \/ DispatchEnd

SpecDispatch == InitDispatch /\ [][NextDispatch]_vars

\* ------------------------------------------------- the engine, called alone
\* (one call in a run: call = Nil before it)

\* arbitration ids, payloads and byte values the engine is called with
EngineIds == {2, 3, 5}
Payloads == {<<>>, <<0>>, <<255, 1>>}
ByteValues == {0, 1, 128, 255}
Operations == {"set", "and", "or", "xor", "add", "sub"}
ByteOps == [byte_index : {0, 1, 2}, operation : Operations, value : ByteValues]

\* ManipulationRule(name, can_id, can_id_mask, direction, action,
\* manipulations, enabled, extra_delay_ms)
Rule(name, can_id, mask, direction, action, manips, on, extra) ==
    [direction |-> direction, can_id |-> can_id, can_id_mask |-> mask,
     enabled |-> on, action |-> action, manipulations |-> manips,
     extra_delay_ms |-> extra, name |-> name]

ByteOp(i, op, v) == [byte_index |-> i, operation |-> op, value |-> v]

\* lists of byte operations: none, one, two whose order matters, two on
\* different bytes, one past the end of every payload
ManipLists ==
    { <<>>,
      <<ByteOp(0, "add", 1)>>,
      <<ByteOp(0, "set", 16), ByteOp(0, "add", 1)>>,
      <<ByteOp(0, "add", 1), ByteOp(0, "set", 16)>>,
      <<ByteOp(1, "xor", 255), ByteOp(0, "sub", 1)>>,
      <<ByteOp(2, "set", 7)>> }

\* the rules ManipulationRule.apply is called on
ApplyRules ==
    { Rule("r", -1, 2047, "both", a, ms, TRUE, x) :
        a \in {"forward", "drop", "delay"}, ms \in ManipLists, x \in {0, 5} }

\* the rules ManipulationRule.matches is called on
MatchRules ==
    { Rule("r", id, mask, dir, "forward", <<>>, on, 0) :
        id \in {-1, 3}, mask \in {1, 2047}, dir \in {"both", "0to1", "1to0"},
        on \in BOOLEAN }

\* the rules the engine holds: an exact id, the odd ids of one direction, any
\* id, and a disabled rule
EngineRules ==
    { Rule("exact3", 3, 2047, "both", "forward", <<ByteOp(0, "set", 16)>>, TRUE, 0),
      Rule("odd", 3, 1, "0to1", "drop", <<>>, TRUE, 0),
      Rule("any", -1, 2047, "both", "delay", <<ByteOp(0, "xor", 255)>>, TRUE, 5),
      Rule("off", -1, 2047, "both", "drop", <<>>, FALSE, 0) }

MaxRules == 2

\* set_rules / add_rule: the lists of at most MaxRules rules
RuleLists == UNION {[1..n -> EngineRules] : n \in 0..MaxRules}

\* a method is called and returns; the gateway is not touched
Called(c) ==
    /\ call' = c
    /\ UNCHANGED <<life, threads, queue, counters, latency_samples, config, clock,
                   tx, rows, evicted, past, manager, glog>>

\* ManipulationEngine.process(arb_id, data, direction)
CallProcess ==
    /\ call = Nil
    /\ \E on \in BOOLEAN, rs \in RuleLists, id \in EngineIds, data \in Payloads,
          d \in Dirs :
           Called([data |-> data, arb_id |-> id, direction |-> d, enabled |-> on,
                   rules |-> rs, fn |-> "process",
                   ret |-> Process(on, rs, id, data, d)])

\* ManipulationRule.apply(data)
CallApply ==
    /\ call = Nil
    /\ \E rule \in ApplyRules, data \in Payloads :
           Called([data |-> data, rule |-> rule, fn |-> "apply",
                   ret |-> RuleApply(rule, data)])

\* ManipulationRule.matches(arb_id, msg_direction)
CallMatches ==
    /\ call = Nil
    /\ \E rule \in MatchRules, id \in EngineIds, d \in Dirs :
           Called([rule |-> rule, arb_id |-> id, direction |-> d, fn |-> "matches",
                   ret |-> Matches(rule, id, d)])

\* ByteManipulation.apply(data), for two operations one after the other on
\* the same bytearray
CallByteOps ==
    /\ call = Nil
    /\ \E m1 \in ByteOps, m2 \in ByteOps, data \in Payloads :
           Called([fn |-> "bytes", m1 |-> m1, m2 |-> m2, d0 |-> data,
                   d1 |-> ByteApply(m1, data),
                   d2 |-> ByteApply(m2, ByteApply(m1, data))])

InitEngine == Constructed(0, 0, 0, FALSE, <<>>)

NextEngine ==
    \/ CallProcess
    \/ CallApply
    \/ CallMatches
    \/ CallByteOps

SpecEngine == InitEngine /\ [][NextEngine]_vars

\* ------------------------------ process while the rule list is changed

\* changes of the rule list during one call of process
MaxMutations == 1

\* remove_rule: del self._rules[i] for the first rule of that name
RECURSIVE RemoveNamed(_, _)
RemoveNamed(rs, name) ==
    IF rs = <<>> THEN <<>>
    ELSE IF Head(rs).name = name THEN Tail(rs)
    ELSE <<Head(rs)>> \o RemoveNamed(Tail(rs), name)

\* process, the engine enabled: for rule in self._rules creates an iterator
\* on the list object _rules is bound to and starts at its first element
ProcessBegin ==
    /\ call = Nil
    /\ engine_enabled
    /\ \E id \in EngineIds, data \in Payloads, d \in Dirs :
          call' = [fn |-> "process_steps", arb_id |-> id, data |-> data,
                   direction |-> d, iter |-> rules, bound |-> TRUE, index |-> 1,
                   lists |-> {rules}, mutations |-> 0, removed |-> FALSE,
                   done |-> FALSE, ret |-> <<>>]
    /\ UNCHANGED <<life, threads, queue, counters, latency_samples, config, clock,
                   tx, rows, evicted, past, manager, glog>>

InProcess == call # Nil /\ call.fn = "process_steps" /\ ~call.done

\* one round of the loop: the iterator is exhausted (forward unchanged), or
\* the next rule matches (return rule.apply(data)), or it does not
ProcessStep ==
    /\ InProcess
    /\ call' =
          IF call.index > Len(call.iter)
          THEN [call EXCEPT !.done = TRUE, !.ret = <<"forward", call.data, 0>>]
          ELSE IF Matches(call.iter[call.index], call.arb_id, call.direction)
          THEN [call EXCEPT !.done = TRUE,
                            !.ret = RuleApply(call.iter[call.index], call.data)]
          ELSE [call EXCEPT !.index = @ + 1]
    /\ UNCHANGED <<life, threads, queue, counters, latency_samples, config, clock,
                   tx, rows, evicted, past, manager, glog>>

\* another thread changes the rule list to rs while process runs; a change
\* in place is seen by the iterator, a new list object (set_rules) is not
Mutate(rs, in_place, removing) ==
    /\ InProcess
    /\ call.mutations < MaxMutations
    /\ rules' = rs
    /\ call' = [call EXCEPT !.iter = IF in_place /\ call.bound THEN rs ELSE @,
                            !.bound = @ /\ in_place,
                            !.lists = @ \cup {rs},
                            !.mutations = @ + 1,
                            !.removed = @ \/ removing]
    /\ UNCHANGED <<life, threads, queue, counters, latency_samples, clock,
                   tx, rows, evicted, past, manager, glog, enabled, delay_ms,
                   jitter_ms, loss_pct, logger, engine_enabled>>

\* ManipulationEngine.add_rule
EngineAddRule ==
    \E r \in EngineRules :
        Len(rules) < MaxRules /\ Mutate(Append(rules, r), TRUE, FALSE)

\* ManipulationEngine.remove_rule
EngineRemoveRule ==
    \E r \in EngineRules :
        rules # <<>> /\ Mutate(RemoveNamed(rules, r.name), TRUE, TRUE)

\* ManipulationEngine.clear_rules
EngineClearRules ==
    /\ InProcess
    /\ Mutate(<<>>, TRUE, FALSE)

\* ManipulationEngine.set_rules
EngineSetRules ==
    /\ InProcess
    /\ \E rs \in RuleLists : Mutate(rs, FALSE, FALSE)

\* Snapshot: an engine holding any list of at most MaxRules rules evaluates
\* one frame while the list is changed.
InitSnapshot == \E rs \in RuleLists : Constructed(0, 0, 0, FALSE, rs)

NextSnapshot ==
    \/ ProcessBegin
    \/ ProcessStep
    \/ EngineAddRule
    \/ EngineRemoveRule
    \/ EngineClearRules
    \/ EngineSetRules

SpecSnapshot == InitSnapshot /\ [][NextSnapshot]_vars

\* ------------------------------------------------------------ the facade

\* the settings update_settings takes
Fields == {"delay_ms", "loss_pct", "jitter_ms"}

FieldValues(f) ==
    IF f = "delay_ms" THEN DelayValues
    ELSE IF f = "loss_pct" THEN LossValues
    ELSE JitterValues

SettingValues == DelayValues \cup LossValues \cup JitterValues

\* SETTINGS_CHANGED events the model lets the facade publish
MaxEvents == 1

\* a publish that does not look at the dictionary
PublishAlways(events, changed) == Append(events, changed)

\* if changed: self._event_bus.publish(EventType.SETTINGS_CHANGED, changed)
Publish(events, changed) ==
    IF DOMAIN changed # {} THEN Append(events, changed) ELSE events

\* GatewayManager.update_settings; args maps the supplied names to their
\* values (a parameter left None is not in its domain)
UpdateSettings(args) ==
    /\ ctl = "idle"
    /\ Len(manager.events) < MaxEvents
    /\ manager' = [manager EXCEPT
                     !.config = [f \in Fields |->
                                   IF f \in DOMAIN args THEN args[f] ELSE @[f]],
                     !.events = Publish(@, args)]
    /\ delay_ms' = IF manager.gateway /\ "delay_ms" \in DOMAIN args
                   THEN args["delay_ms"] ELSE delay_ms
    /\ loss_pct' = IF manager.gateway /\ "loss_pct" \in DOMAIN args
                   THEN args["loss_pct"] ELSE loss_pct
    /\ jitter_ms' = IF manager.gateway /\ "jitter_ms" \in DOMAIN args
                    THEN ClampJitter(args["jitter_ms"]) ELSE jitter_ms
    /\ call' = [fn |-> "update_settings", args |-> args]
    /\ UNCHANGED <<life, threads, queue, counters, latency_samples, clock,
                   tx, rows, evicted, past, glog, enabled, logger, rules,
                   engine_enabled>>

\* lifecycle events of the facade the model follows
MaxLifecycle == 4

\* writers the model lets the logger replace without closing them
MaxUnclosed == 2

\* GatewayLogger.start with a base path set: _seq = 0, a new BLFWriter and a
\* new CSV file are assigned to _writer and _csv_file, _enabled = True; the
\* writers these fields held are neither stopped nor closed
LoggerStart(g) ==
    [g EXCEPT !.seq = 0, !.csv = <<>>, !.session = TRUE,
              !.unclosed = IF g.session THEN @ + 1 ELSE @]

\* GatewayLogger.stop: _enabled = False, the writer is stopped and the CSV
\* file closed, the fields set to None
LoggerStop(g) == [g EXCEPT !.session = FALSE]

\* the data of GATEWAY_STARTED
StartedEvent ==
    [type |-> "GATEWAY_STARTED", iface0 |-> 0, iface1 |-> 1,
     delay_ms |-> manager.config["delay_ms"],
     loss_pct |-> manager.config["loss_pct"],
     jitter_ms |-> manager.config["jitter_ms"]]

\* GATEWAY_STOPPED is published without data
StoppedEvent == [type |-> "GATEWAY_STOPPED"]

\* GatewayManager.start, up to the first step of gateway.start(): the
\* logger is started if a log path is configured, a new gateway is built
\* from _config, both directions are enabled as _config has them,
\* _running = True and reset_all()
ManagerStart ==
    /\ ctl = "idle"
    /\ ~(manager.gateway /\ running)
    /\ Len(manager.lifecycle) + 2 <= MaxLifecycle
    /\ manager' = [manager EXCEPT !.gateway = TRUE]
    /\ logger' = manager.log_path
    /\ glog' = IF manager.log_path THEN LoggerStart(glog) ELSE glog
    /\ delay_ms' = manager.config["delay_ms"]
    /\ loss_pct' = manager.config["loss_pct"]
    /\ jitter_ms' = ClampJitter(manager.config["jitter_ms"])
    /\ enabled' = [d \in Dirs |-> TRUE]
    /\ running' = TRUE
    /\ ctl' = "open0"
    /\ bus' = [i \in Ifaces |-> FALSE]
    /\ rpc' = [d \in Dirs |-> "none"]
    /\ spc' = [d \in Dirs |-> "none"]
    /\ cur' = [d \in Dirs |-> Nil]
    /\ out' = [d \in Dirs |-> Nil]
    /\ owner' = [d \in Dirs |-> "none"]
    /\ queue' = [d \in Dirs |-> <<>>]
    /\ received' = [d \in Dirs |-> 0]
    /\ forwarded' = [d \in Dirs |-> 0]
    /\ dropped' = [d \in Dirs |-> 0]
    /\ latency_samples' = [d \in Dirs |-> <<>>]
    /\ UNCHANGED <<rules, engine_enabled, clock, tx, rows, evicted, past, call>>

\* GatewayManager.start while the gateway runs: return
ManagerStartRunning ==
    /\ ctl = "idle"
    /\ manager.gateway /\ running
    /\ UNCHANGED vars

\* GatewayManager.start: gateway.start() has returned, GATEWAY_STARTED is
\* published
ManagerStarted ==
    /\ ThreadsStarted
    /\ manager' = [manager EXCEPT !.lifecycle = Append(@, StartedEvent)]
    /\ UNCHANGED <<call, glog>>

\* a stop of the facade that closes the logger before it stops the gateway
ManagerStopClosesLogger ==
    /\ ctl = "idle"
    /\ manager.gateway
    /\ running' = FALSE
    /\ ctl' = "notify0"
    /\ glog' = LoggerStop(glog)
    /\ UNCHANGED <<bus, threads, queue, counters, latency_samples, config, clock,
                   tx, rows, evicted, past, call, manager>>

\* GatewayManager.stop: gateway.stop() begins (_running = False)
ManagerStop ==
    /\ ctl = "idle"
    /\ manager.gateway
    /\ running' = FALSE
    /\ ctl' = "notify0"
    /\ UNCHANGED <<bus, threads, queue, counters, latency_samples, config, clock,
                   trace>>

\* GatewayManager.stop without a gateway: return
ManagerStopIdle ==
    /\ ctl = "idle"
    /\ ~manager.gateway
    /\ UNCHANGED vars

\* GatewayManager.stop: gateway.stop() has returned; _gateway = None,
\* logger.stop(), GATEWAY_STOPPED is published
ManagerStopped ==
    /\ Joined
    /\ manager' = [manager EXCEPT !.gateway = FALSE,
                                  !.lifecycle = Append(@, StoppedEvent)]
    /\ glog' = LoggerStop(glog)
    /\ UNCHANGED <<config, call>>

\* GatewayManager.set_log_path: the path is stored; while the gateway runs
\* the logger is started and attached, or stopped and detached
ManagerSetLogPath(path) ==
    /\ ctl = "idle"
    /\ glog.unclosed < MaxUnclosed
    /\ manager' = [manager EXCEPT !.log_path = path]
    /\ IF manager.gateway /\ running
       THEN /\ glog' = IF path THEN LoggerStart(glog) ELSE LoggerStop(glog)
            /\ logger' = path
       ELSE UNCHANGED <<glog, logger>>
    /\ call' = [fn |-> "set_log_path", path |-> path, session |-> glog.session,
                busy |-> \E d \in Dirs : out[d] # Nil]
    /\ UNCHANGED <<life, threads, queue, counters, latency_samples, clock,
                   tx, rows, evicted, past, enabled, delay_ms, jitter_ms,
                   loss_pct, rules, engine_enabled>>

\* the workers of direction d while no frame arrives
IdleWorkers(d) ==
    \/ OneAtATime(d) /\ RecvLoopHead(d)
    \/ OneAtATime(d) /\ RecvTimeout(d)
    \/ OneAtATime(d) /\ SendLoopHead(d)
    \/ OneAtATime(d) /\ SendInnerHead(d)
    \/ OneAtATime(d) /\ SendWait(d)
    \/ OneAtATime(d) /\ SendWaitTimeout(d)
    \/ OneAtATime(d) /\ SendWakeNotified(d)

\* Facade: the gateway is created, started and stopped by the facade, its
\* settings are changed by update_settings, no frame arrives.
InitManager == Constructed(0, 0, 0, FALSE, <<>>)

NextManager ==
    \/ ManagerStart
    \/ ManagerStartRunning
    \/ StartOpen0
    \/ ManagerStarted
    \/ ManagerStop
    \/ ManagerStopIdle
    \/ StopNotify
    \/ ManagerStopped
    \/ \E S \in SUBSET Fields : \E args \in [S -> SettingValues] :
          /\ \A f \in S : args[f] \in FieldValues(f)
          /\ UpdateSettings(args)
    \/ \E d \in Dirs : IdleWorkers(d)

SpecManager == InitManager /\ [][NextManager]_vars

\* Facade lifecycle: the facade of SpecManager where create_bus may raise
\* inside start().
NextLifecycle ==
    \/ NextManager
    \/ StartOpenFails

SpecLifecycle == InitManager /\ [][NextLifecycle]_vars

\* jitter values a caller may pass, one of them below zero
SignedJitter == {-1, 0, 1}

\* Jitter: the gateway is built, started and stopped by the facade; jitter is
\* set through update_settings and through the gateway's property; no frame
\* arrives.
InitJitter == Constructed(0, 0, 0, FALSE, <<>>)

NextJitter ==
    \/ ManagerStart
    \/ ManagerStartRunning
    \/ StartOpen0
    \/ ManagerStarted
    \/ ManagerStop
    \/ ManagerStopIdle
    \/ StopNotify
    \/ ManagerStopped
    \/ \E args \in [{"jitter_ms"} -> SignedJitter] : UpdateSettings(args)
    \/ \E v \in SignedJitter : manager.gateway /\ ctl = "idle" /\ SetJitter(v)
    \/ \E d \in Dirs : IdleWorkers(d)

SpecJitter == InitJitter /\ [][NextJitter]_vars

\* Sync: the facade of SpecManager with set_log_path.
InitSync == Constructed(0, 0, 0, FALSE, <<>>)

NextSync ==
    \/ NextManager
    \/ \E path \in BOOLEAN : ManagerSetLogPath(path)

SpecSync == InitSync /\ [][NextSync]_vars

\* the workers of direction d of a gateway without rules and loss, the
\* sender's log_tx row written statement by statement; frames arrive on
\* iface0 only
SwapWorkers(d) ==
    \/ OneAtATime(d) /\ RecvLoopHead(d)
    \/ OneAtATime(d) /\ RecvTimeout(d)
    \/ OneAtATime(d) /\ d = "0to1" /\ \E f \in FrameSet : RecvFrame(d, f)
    \/ OneAtATime(d) /\ RecvSchedule(d)
    \/ OneAtATime(d) /\ RecvLock(d)
    \/ OneAtATime(d) /\ RecvEvict(d)
    \/ OneAtATime(d) /\ RecvPush(d)
    \/ OneAtATime(d) /\ SendLoopHead(d)
    \/ OneAtATime(d) /\ SendInnerHead(d)
    \/ OneAtATime(d) /\ SendWait(d)
    \/ OneAtATime(d) /\ SendWaitTimeout(d)
    \/ OneAtATime(d) /\ SendWakeNotified(d)
    \/ OneAtATime(d) /\ SendPop(d)
    \/ OneAtATime(d) /\ ~logger /\ SendOk(d)
    \/ OneAtATime(d) /\ SendBump(d)
    \/ OneAtATime(d) /\ SendRow(d)
    \/ OneAtATime(d) /\ SendRowClosed(d)

\* Swap: the facade starts the gateway, frames are forwarded, and
\* set_log_path is called while the workers run, until it is called with
\* None.
InitSwap == Constructed(0, 0, 0, FALSE, <<>>)

NextSwap ==
    \/ ManagerStart
    \/ StartOpen0
    \/ ManagerStarted
    \/ \E path \in BOOLEAN : 
          /\ IF call = Nil THEN TRUE ELSE call.path
          /\ ManagerSetLogPath(path)
    \/ \E d \in Dirs : SwapWorkers(d)

SpecSwap == InitSwap /\ [][NextSwap]_vars

\* ------------------------------------------------------------------ claims

\* no frame of direction d is inside a worker
NoFrameInHand(d) == cur[d] = Nil /\ out[d] = Nil

\* stop() (or the constructor) has returned and nothing runs
Stopped ==
    /\ ctl = "idle"
    /\ \A d \in Dirs : rpc[d] = "none" /\ spc[d] = "none"

\* C1: for each direction, whenever no frame of the direction is mid-step
\* inside a worker, received = forwarded + dropped + the number of queued
\* entries.
C1_Accounting ==
    \A d \in Dirs :
        NoFrameInHand(d) =>
            received[d] = forwarded[d] + dropped[d] + Len(queue[d])

\* C2: after stop() has returned, received = forwarded + dropped for each
\* direction.
C2_AfterStop ==
    (Stopped /\ ~running) =>
        \A d \in Dirs : received[d] = forwarded[d] + dropped[d]

\* C3: with jitter 0 and no rule, the frames of a direction are sent in the
\* order in which they were received.
C3_ReceiveOrder ==
    jitter_ms = 0 =>
        \A i \in Ifaces : \A k, l \in 1..Len(tx[i]) :
            k < l => tx[i][k].seq < tx[i][l].seq

\* C4: the send_time values of the frames a direction sends one after the
\* other never decrease.
C4_SendTimeOrder ==
    \A i \in Ifaces : \A k, l \in 1..Len(tx[i]) :
        k < l => tx[i][k].send_time <= tx[i][l].send_time

\* an entry with send_time >= recv_time
Clamped(e) == e.send_time >= e.recv_time

\* C5: every entry that is pushed, queued, popped or sent has
\* send_time >= recv_time.
C5_SendTimeClamped ==
    \A d \in Dirs :
        /\ rpc[d] \in {"push", "crit"} => Clamped(cur[d])
        /\ \A k \in 1..Len(queue[d]) : Clamped(queue[d][k])
        /\ out[d] # Nil => Clamped(out[d])
        /\ \A k \in 1..Len(tx[DstIface(d)]) : Clamped(tx[DstIface(d)][k])

\* a queued frame of the DELAY rule received at time 1 with delay 0: the sum
\* recv_time + 0 + jitter - 2 is below recv_time for every jitter in [-1, 1]
C5_Witness ==
    \E d \in Dirs : \E k \in 1..Len(queue[d]) :
        /\ delay_ms = 0
        /\ queue[d][k].arb_id = 3
        /\ queue[d][k].recv_time = 1
        /\ queue[d][k].send_time = 1

\* C6: between two calls of start()/stop() the gateway runs exactly when it
\* has its four workers, and has none when it does not run.
C6_WorkersMatchRunning ==
    ctl = "idle" =>
        \A d \in Dirs : /\ (running <=> WorkerAlive(rpc[d]))
                         /\ (running <=> WorkerAlive(spc[d]))

\* C7: once stop() has set running to false, the four workers terminate and
\* stop() returns.
C7_StopTerminates == (ctl = "notify0") ~> Stopped

\* stop() has returned while a heap holds a head that is not due
C7_Witness ==
    /\ Stopped
    /\ ~running
    /\ \E d \in Dirs : queue[d] # <<>> /\ ~Due(d)

\* C8: when create_bus fails in start(), the gateway is idle afterwards: not
\* running, no bus handle held, no worker.
C8_OpenFailure ==
    [][(ctl \in {"open0", "open1"} /\ ctl' = "idle" /\ \A d \in Dirs : rpc'[d] = "none")
          => (~running' /\ \A i \in Ifaces : ~bus'[i])]_vars

\* C9: a popped frame is accounted once: a failed send adds one to dropped
\* and nothing else, a successful send adds one to forwarded, one latency
\* sample and the frame on the bus, and leaves dropped alone.
C9_AccountedOnce ==
    [][\A d \in Dirs :
          (out[d] # Nil /\ out'[d] = Nil) =>
              \/ /\ tx'[DstIface(d)] = Append(tx[DstIface(d)], Sent(d))
                 /\ forwarded'[d] = forwarded[d] + 1
                 /\ Len(latency_samples'[d]) = Len(latency_samples[d]) + 1
                 /\ dropped'[d] = dropped[d]
                 /\ queue'[d] = queue[d]
              \/ /\ tx' = tx
                 /\ forwarded'[d] = forwarded[d]
                 /\ latency_samples'[d] = latency_samples[d]
                 /\ rows'[d] = rows[d]
                 /\ dropped'[d] = dropped[d] + 1
                 /\ queue'[d] = queue[d]]_vars

\* the entries of a heap
Entries(heap) == {heap[k] : k \in 1..Len(heap)}

\* a step of direction d that evicts: under the lock, from a full heap, the
\* entry with the smallest send_time, one more dropped, the lock kept
EvictsMin(d) ==
    /\ owner[d] = "recv" /\ owner'[d] = "recv"
    /\ Len(queue[d]) >= MAX_QUEUE_SIZE
    /\ dropped'[d] = dropped[d] + 1
    /\ \E e \in Entries(queue[d]) :
          /\ evicted'[d] = evicted[d] \cup {e.seq}
          /\ \A o \in Entries(queue[d]) : e.send_time <= o.send_time
          /\ Entries(queue'[d]) = Entries(queue[d]) \ {e}
          /\ Len(queue'[d]) = Len(queue[d]) - 1

\* C10: a heap never holds more than MAX_QUEUE_SIZE entries; an eviction
\* pops the entry with the smallest send_time and adds one to dropped; the
\* receiver gives the lock back only with the push of the new entry, into a
\* heap that has room.
C10_Bounded ==
    /\ [](\A d \in Dirs : Len(queue[d]) <= MAX_QUEUE_SIZE)
    /\ [][\A d \in Dirs :
             /\ evicted'[d] # evicted[d] => EvictsMin(d)
             /\ (owner[d] = "recv" /\ owner'[d] # "recv") =>
                    /\ Len(queue[d]) < MAX_QUEUE_SIZE
                    /\ Entries(queue'[d]) = Entries(queue[d]) \cup {cur[d]}
                    /\ Len(queue'[d]) = Len(queue[d]) + 1
                    /\ dropped'[d] = dropped[d]]_vars

\* a full heap after an eviction, its entries scheduled at different times
C10_Witness ==
    \E d \in Dirs :
        /\ evicted[d] # {}
        /\ Len(queue[d]) = MAX_QUEUE_SIZE
        /\ queue[d][1].send_time < queue[d][2].send_time

\* start() returns with the four workers created
StartReturns ==
    /\ ctl = "open1"
    /\ \A d \in Dirs : rpc'[d] = "loop" /\ spc'[d] = "loop"

\* C11: when start() returns, the counters of both directions are 0 and the
\* heaps and the latency windows are empty; a frame that a start() found in
\* a heap is never on a bus.
C11_StartResets ==
    /\ [](\A i \in Ifaces : \A k \in 1..Len(tx[i]) : tx[i][k].seq \notin stale)
    /\ [][StartReturns =>
             \A d \in Dirs :
                 /\ received'[d] = 0 /\ forwarded'[d] = 0 /\ dropped'[d] = 0
                 /\ queue'[d] = <<>>
                 /\ latency_samples'[d] = <<>>]_vars

\* a second cycle forwards a frame after its start() has found a frame of
\* the first cycle in a heap
C11_Witness ==
    /\ stale # {}
    /\ running
    /\ \E d \in Dirs : forwarded[d] > 0

\* the receiver of direction d takes a frame from its bus
Receives(d) ==
    /\ rpc[d] = "recv"
    /\ injected' = injected + 1

\* C12: a frame received while its direction is disabled changes no counter,
\* writes no log row, reaches neither the rules nor the heap; a frame received
\* while it is enabled is counted; set_direction_enabled changes the flag of
\* its direction and nothing else.
C12_DirectionControl ==
    [][\A d \in Dirs :
          /\ (Receives(d) /\ ~enabled[d]) =>
                 /\ received' = received /\ forwarded' = forwarded
                 /\ dropped' = dropped
                 /\ rows' = rows /\ queue' = queue /\ tx' = tx
                 /\ cur'[d] = Nil /\ rpc'[d] = "loop"
          /\ (Receives(d) /\ enabled[d]) =>
                 /\ received'[d] = received[d] + 1
                 /\ cur'[d] # Nil
          /\ enabled'[d] # enabled[d] =>
                 /\ \A e \in Dirs \ {d} : enabled'[e] = enabled[e]
                 /\ UNCHANGED <<counters, queue, latency_samples, threads, trace>>]_vars

\* a disabled direction has let a frame pass by uncounted
C12_Witness ==
    \E d \in Dirs :
        /\ ~enabled[d]
        /\ rpc[d] = "loop"
        /\ received[d] = 0
        /\ \A e \in Dirs \ {d} : enabled[e]
        /\ injected > received["0to1"] + received["1to0"]

\* C13: with loss_pct = 100 every received frame is dropped and nothing is
\* queued or sent; with loss_pct = 0 the receiver drops no frame it has in
\* hand before the push.
C13_LossExtremes ==
    /\ [](loss_pct = 100 =>
             \A d \in Dirs :
                 /\ forwarded[d] = 0
                 /\ queue[d] = <<>>
                 /\ tx[DstIface(d)] = <<>>
                 /\ out[d] = Nil
                 /\ rpc[d] \notin {"push", "crit"}
                 /\ cur[d] = Nil => dropped[d] = received[d])
    /\ [][loss_pct = 0 =>
             \A d \in Dirs : rpc[d] = "rx" => dropped'[d] = dropped[d]]_vars

\* two frames were received with loss_pct = 100 and both were dropped
C13_Witness ==
    /\ loss_pct = 100
    /\ \E d \in Dirs : received[d] >= 2 /\ dropped[d] = received[d]

\* the frames in the heap, in the sender's hand and on the bus of direction d
Forwarding(d) ==
    Entries(queue[d]) \cup (IF out[d] = Nil THEN {} ELSE {out[d]})
        \cup Entries(tx[DstIface(d)])

Transmitted == UNION {{<<i, k>> : k \in 1..Len(tx[i])} : i \in Ifaces}

\* the payload the rules of SpecManip leave for a received frame: the rule
\* for id 2 in direction 0to1 adds 255 to byte 0 (mod 256) and its write to
\* byte 1 lies beyond the payload
Rewritten(o, d, engine_on) ==
    IF engine_on /\ o.arb_id = 2 /\ d = "0to1" THEN <<(o.data[1] + 255) % 256>>
    ELSE o.data

\* C15: every transmitted frame is one frame received on the source interface
\* of its direction, with that frame's arbitration id and extended flag and
\* with its payload as the first matching rule's byte operations leave it
\* (the received payload when no rule matches or the engine is off); no
\* received frame is transmitted twice; 0to1 goes out on interface 1 only
\* and 1to0 on interface 0 only.
C15_Correspondence ==
    /\ \A p \in Transmitted :
          LET e == tx[p[1]][p[2]] IN
          /\ e.seq \in 1..injected
          /\ e.orig.iface = SrcIface(e.dir)
          /\ e.arb_id = e.orig.arb_id
          /\ e.is_extended_id = e.orig.is_extended_id
          /\ e.data = Rewritten(e.orig, e.dir, e.eng)
          /\ (e.dir = "0to1") = (p[1] = 1)
          /\ (e.dir = "1to0") = (p[1] = 0)
    /\ \A p, q \in Transmitted : p # q => tx[p[1]][p[2]].seq # tx[q[1]][q[2]].seq

\* a rewritten frame has gone out on interface 1, an extended frame has gone
\* out unchanged on interface 0, and a frame went through while the engine
\* was off
C15_Witness ==
    /\ \E k \in 1..Len(tx[1]) :
          tx[1][k].orig.arb_id = 2 /\ tx[1][k].data = <<1>> /\ tx[1][k].is_extended_id
    /\ \E k \in 1..Len(tx[0]) :
          tx[0][k].orig.arb_id = 2 /\ tx[0][k].data = <<2>> /\ tx[0][k].is_extended_id
    /\ \E p \in Transmitted : ~tx[p[1]][p[2]].eng
\* the rules of the called engine that match the call's frame, by position
Hits == {k \in 1..Len(call.rules) :
            Matches(call.rules[k], call.arb_id, call.direction)}

\* C16: process returns what the first rule in insertion order that matches
\* returns, whatever later rules would do; with the engine disabled or no
\* rule matching it returns (FORWARD, the payload unchanged, 0).
C16_FirstMatch ==
    call # Nil /\ call.fn = "process" =>
        IF ~call.enabled \/ Hits = {}
        THEN call.ret = <<"forward", call.data, 0>>
        ELSE \E k \in Hits :
                /\ \A j \in Hits : k <= j
                /\ call.ret = RuleApply(call.rules[k], call.data)

\* two rules match and would give different results; the first one's is returned
C16_Witness ==
    /\ call # Nil /\ call.fn = "process" /\ call.enabled
    /\ Len(call.rules) = 2 /\ Hits = {1, 2}
    /\ RuleApply(call.rules[1], call.data) # RuleApply(call.rules[2], call.data)
    /\ call.ret = RuleApply(call.rules[1], call.data)

\* the payload after the byte operations ms (at most two), in list order
After(ms, data) ==
    IF Len(ms) = 0 THEN data
    ELSE IF Len(ms) = 1 THEN ByteApply(ms[1], data)
    ELSE ByteApply(ms[2], ByteApply(ms[1], data))

\* C17: apply of a DROP rule returns (DROP, the original payload, 0) and
\* applies no byte operation; of a FORWARD rule (FORWARD, the payload after
\* all byte operations in list order, 0) whatever extra_delay_ms is; of a
\* DELAY rule (FORWARD, the payload after all byte operations in list
\* order, extra_delay_ms).
C17_RuleApply ==
    call # Nil /\ call.fn = "apply" =>
        LET r == call.rule IN
        /\ r.action = "drop" => call.ret = <<"drop", call.data, 0>>
        /\ r.action = "forward" =>
               call.ret = <<"forward", After(r.manipulations, call.data), 0>>
        /\ r.action = "delay" =>
               call.ret = <<"forward", After(r.manipulations, call.data),
                            r.extra_delay_ms>>

\* a FORWARD rule with a non-zero extra delay and two byte operations whose
\* order matters has rewritten the payload and returned no delay
C17_Witness ==
    /\ call # Nil /\ call.fn = "apply"
    /\ call.rule.action = "forward" /\ call.rule.extra_delay_ms = 5
    /\ call.rule.manipulations = <<ByteOp(0, "set", 16), ByteOp(0, "add", 1)>>
    /\ call.data = <<255, 1>>
    /\ call.ret = <<"forward", <<17, 1>>, 0>>

\* a & mask for a mask of the form 2^k - 1
LowBits(a, mask) == a % (mask + 1)

\* C18: matches is true exactly when the rule is enabled, its direction is
\* "both" or the frame's, and can_id < 0 or the masked ids are equal; a
\* disabled rule never matches.
C18_Matches ==
    call # Nil /\ call.fn = "matches" =>
        LET r == call.rule IN
        /\ call.ret =
              (/\ r.enabled
               /\ r.direction = "both" \/ r.direction = call.direction
               /\ \/ r.can_id < 0
                  \/ LowBits(call.arb_id, r.can_id_mask) = LowBits(r.can_id, r.can_id_mask))
        /\ ~r.enabled => ~call.ret

\* a rule for id 3 with mask 1 has matched id 5 in its own direction
C18_Witness ==
    /\ call # Nil /\ call.fn = "matches"
    /\ call.rule.enabled /\ call.rule.can_id = 3 /\ call.rule.can_id_mask = 1
    /\ call.rule.direction = "1to0" /\ call.direction = "1to0"
    /\ call.arb_id = 5
    /\ call.ret

\* C19: for an index inside the payload and a value in 0..255, SET twice is
\* SET once, XOR twice restores the payload, ADD then SUB restores it, with
\* every byte staying in 0..255; an operation whose index is at or past the
\* payload's length changes nothing; no operation changes the length.
C19_ByteOps ==
    call # Nil /\ call.fn = "bytes" =>
        LET m1 == call.m1
            m2 == call.m2
            inside == m1.byte_index < Len(call.d0)
        IN /\ Len(call.d1) = Len(call.d0) /\ Len(call.d2) = Len(call.d0)
           /\ \A k \in 1..Len(call.d0) : call.d1[k] \in 0..255 /\ call.d2[k] \in 0..255
           /\ ~inside => call.d1 = call.d0
           /\ m2.byte_index >= Len(call.d1) => call.d2 = call.d1
           /\ (inside /\ m1 = m2 /\ m1.operation = "set") => call.d2 = call.d1
           /\ (inside /\ m1 = m2 /\ m1.operation = "xor") => call.d2 = call.d0
           /\ (inside /\ m1.operation = "add" /\ m2.operation = "sub"
                 /\ m2.byte_index = m1.byte_index /\ m2.value = m1.value) =>
                  call.d2 = call.d0

\* ADD 1 has wrapped byte 0 from 255 to 0 and SUB 1 has brought it back
C19_Witness ==
    /\ call # Nil /\ call.fn = "bytes"
    /\ call.m1 = ByteOp(0, "add", 1) /\ call.m2 = ByteOp(0, "sub", 1)
    /\ call.d0 = <<255, 1>> /\ call.d1 = <<0, 1>> /\ call.d2 = <<255, 1>>
\* the step is a call of update_settings with the arguments in call'
\* that changes something, or it changes what the facade stores or has
\* published
Updates ==
    \/ call' # call
    \/ manager'.config # manager.config
    \/ manager'.events # manager.events

\* C20: update_settings sets the supplied fields, and no other, in the stored
\* configuration and in the gateway when there is one; it publishes one
\* SETTINGS_CHANGED event whose payload holds the supplied fields, and no
\* other, or nothing when no field is supplied; a gateway the facade starts
\* runs with the stored values.
C20_UpdateSettings ==
    /\ [](manager.gateway =>
             /\ delay_ms = manager.config["delay_ms"]
             /\ loss_pct = manager.config["loss_pct"]
             /\ jitter_ms = manager.config["jitter_ms"])
    /\ [][Updates =>
             /\ call' # Nil
             /\ LET a == call'.args
                    S == DOMAIN a
                IN /\ \A f \in Fields :
                         manager'.config[f] = IF f \in S THEN a[f] ELSE manager.config[f]
                   /\ manager'.events = IF S = {} THEN manager.events
                                        ELSE Append(manager.events, a)
                   /\ S # {} => DOMAIN manager'.events[Len(manager'.events)] = S
                   /\ manager'.gateway = manager.gateway
                   /\ ~manager.gateway => UNCHANGED <<delay_ms, loss_pct, jitter_ms>>
                   /\ UNCHANGED <<life, threads, queue, counters, latency_samples,
                                  enabled, logger, rules, engine_enabled>>]_vars

\* the loss was set while there was no gateway, one event with that field
\* alone was published, and the gateway started since runs with it
C20_Witness ==
    /\ manager.events = <<[loss_pct |-> 100]>>
    /\ manager.gateway /\ running
    /\ \A d \in Dirs : WorkerAlive(rpc[d])
    /\ loss_pct = 100 /\ delay_ms = 0 /\ jitter_ms = 0
\* C21: the jitter in force at the gateway and the jitter_ms the facade's
\* configuration holds are never below zero, whichever way a negative value
\* came in (constructor, property setter, update_settings).
C21_JitterClamped ==
    /\ jitter_ms >= 0
    /\ manager.config["jitter_ms"] >= 0

\* the part of C21 that is about the gateway alone
C21_GatewayJitterClamped == jitter_ms >= 0

\* update_settings was given a negative jitter while the gateway ran
C21_Witness ==
    /\ call # Nil /\ call.fn = "update_settings"
    /\ call.args["jitter_ms"] < 0
    /\ manager.gateway /\ running
\* what the gateway has in force
InForce == [delay_ms |-> delay_ms, jitter_ms |-> jitter_ms, loss_pct |-> loss_pct]

\* C22: while a logger is attached, the configuration the logger writes into
\* its rows is the (delay_ms, jitter_ms, loss_pct) the gateway has in force.
C22_LoggerConfig == (logger /\ manager.gateway) => glog.config = InForce

\* update_settings has changed a setting of a gateway that has a logger
C22_Witness ==
    /\ logger /\ manager.gateway /\ running
    /\ call # Nil /\ call.fn = "update_settings"
    /\ "delay_ms" \in DOMAIN call.args /\ call.args["delay_ms"] = 1
    /\ delay_ms = 1
\* the rows of direction d with the given event
RowsOf(d, event) == {k \in 1..Len(rows[d]) : rows[d][k].event = event}

\* C23: once the workers of a direction hold no frame and its heap is empty,
\* the frames counted as forwarded have one 'forwarded' row each, the frames
\* counted as dropped have one 'dropped' row each, and there is no other row.
C23_RowPerFrame ==
    \A d \in Dirs :
        (logger /\ NoFrameInHand(d) /\ queue[d] = <<>>) =>
            /\ Cardinality(RowsOf(d, "forwarded")) = forwarded[d]
            /\ Cardinality(RowsOf(d, "dropped")) = dropped[d]
            /\ \A j, k \in 1..Len(rows[d]) :
                  rows[d][j].frame = rows[d][k].frame => j = k

\* C23 for the frames that are forwarded or dropped by a rule or by the loss
\* step: every such frame has its row
C23_RowPerFrameNoEviction ==
    \A d \in Dirs :
        (logger /\ NoFrameInHand(d) /\ queue[d] = <<>>) =>
            /\ Cardinality(RowsOf(d, "forwarded")) = forwarded[d]
            /\ Cardinality(RowsOf(d, "dropped")) + Cardinality(evicted[d]) = dropped[d]
            /\ \A j, k \in 1..Len(rows[d]) :
                  rows[d][j].frame = rows[d][k].frame => j = k

\* a frame was evicted from a full heap while the logger was attached, and
\* the direction has come to rest
C23_Witness ==
    \E d \in Dirs :
        /\ logger /\ NoFrameInHand(d) /\ queue[d] = <<>>
        /\ evicted[d] # {}
        /\ forwarded[d] > 0
\* C24: the seq values of the rows of a session are 1, 2, 3, ... in the
\* order of the rows in the file.
C24_SeqContiguous == \A k \in 1..Len(glog.csv) : glog.csv[k] = k

\* a dropped frame and a forwarded frame of one direction both have their
\* row
C24_Witness ==
    \E d \in Dirs :
        /\ RowsOf(d, "dropped") # {} /\ RowsOf(d, "forwarded") # {}
        /\ Len(glog.csv) >= 2
\* C25: no writer the logger opened is left unclosed: when set_log_path
\* starts a new session, the writers of the previous one have been stopped
\* and closed.
C25_NoWriterLeft == glog.unclosed = 0

\* C25, the other half: set_log_path(None) on a running gateway closes the
\* session and detaches the logger.
C25_NoneCloses ==
    [][(/\ call' # call
        /\ call'.fn = "set_log_path"
        /\ ~call'.path
        /\ manager.gateway /\ running)
       => (~glog'.session /\ ~logger')]_vars

\* set_log_path(path) has been called on a running gateway whose logger
\* had a session open
C25_Witness ==
    /\ call # Nil
    /\ call.fn = "set_log_path" /\ call.path /\ call.session
    /\ manager.gateway /\ running
    /\ glog.session /\ logger
\* C26: with set_log_path called while frames are handled, a frame is still
\* accounted exactly once and only an evicted frame is counted as dropped
\* (the gateway has no rule, no loss and every send succeeds).
C26_SwapHarmless ==
    \A d \in Dirs :
        /\ dropped[d] = Cardinality(evicted[d])
        /\ NoFrameInHand(d) =>
               received[d] = forwarded[d] + dropped[d] + Len(queue[d])

\* set_log_path(None) was called while a sender held a frame, and that
\* sender has finished with it
C26_Witness ==
    /\ call # Nil
    /\ call.fn = "set_log_path" /\ ~call.path /\ call.session /\ call.busy
    /\ \E d \in Dirs : forwarded[d] >= 1 /\ NoFrameInHand(d) /\ queue[d] = <<>>
\* the number of calls of cb in a publish
CallsOf(called, cb) == Cardinality({k \in 1..Len(called) : called[k].cb = cb})

C29_TieFifo ==
    \A i \in Ifaces : \A k, l \in 1..Len(tx[i]) :
        (k < l /\ tx[i][k].send_time = tx[i][l].send_time) =>
            tx[i][k].seq < tx[i][l].seq

\* two frames with the same send_time and different arbitration ids were
\* sent on one interface
C29_Witness ==
    \E i \in Ifaces : \E k, l \in 1..Len(tx[i]) :
        /\ k < l
        /\ tx[i][k].send_time = tx[i][l].send_time
        /\ tx[i][k].arb_id # tx[i][l].arb_id
IsRunning == manager.gateway /\ running

\* C28: the facade publishes one GATEWAY_STARTED for each change from idle
\* to running and one GATEWAY_STOPPED for each change from running to idle,
\* and nothing else: the events alternate, beginning with GATEWAY_STARTED,
\* and between two calls the facade runs exactly when the last event is
\* GATEWAY_STARTED.
C28_Lifecycle ==
    /\ \A k \in 1..Len(manager.lifecycle) :
          manager.lifecycle[k].type =
              IF k % 2 = 1 THEN "GATEWAY_STARTED" ELSE "GATEWAY_STOPPED"
    /\ ctl = "idle" => (IsRunning <=> Len(manager.lifecycle) % 2 = 1)

\* C28, the data: GATEWAY_STARTED carries the interfaces and the delay, loss
\* and jitter the gateway was started with.
C28_StartedData ==
    [][Len(manager'.lifecycle) > Len(manager.lifecycle) =>
         LET e == manager'.lifecycle[Len(manager'.lifecycle)]
         IN e.type = "GATEWAY_STARTED" =>
               /\ e.iface0 = 0 /\ e.iface1 = 1
               /\ e.delay_ms = delay_ms'
               /\ e.loss_pct = loss_pct'
               /\ e.jitter_ms = jitter_ms'
               /\ IsRunning'
      ]_vars

\* the facade was started and stopped, and both events were published
C28_Witness ==
    /\ Len(manager.lifecycle) >= 2
    /\ manager.lifecycle[1].type = "GATEWAY_STARTED"
    /\ manager.lifecycle[2].type = "GATEWAY_STOPPED"
    /\ ctl = "idle" /\ ~IsRunning
\* the frames in the heap of direction d, and those sent for it
QueuedSeqs(d) == {queue[d][k].seq : k \in 1..Len(queue[d])}

SentSeqs(d) == {tx[DstIface(d)][k].seq : k \in 1..Len(tx[DstIface(d)])}

\* C31: while the gateway runs, an entry pushed on a heap is eventually
\* popped and sent unless it is evicted; a push wakes a sender that waits,
\* and the sender that wakes looks at the heap again before it waits or
\* pops.
C31_Drained ==
    /\ \A d \in Dirs : \A n \in 1..MaxFrames :
          (n \in QueuedSeqs(d)) ~> (n \in SentSeqs(d) \/ n \in evicted[d])
    /\ [][\A d \in Dirs :
             /\ (rpc[d] = "crit" /\ rpc'[d] = "loop" /\ spc[d] = "wait") =>
                    /\ spc'[d] = "woken"
                    /\ cur[d].seq \in QueuedSeqs(d)'
             /\ (spc[d] = "woken" /\ spc'[d] # "woken") => spc'[d] = "inner"
             /\ (spc[d] = "peek" /\ spc'[d] = "wait") => ~Due(d)
       ]_vars

\* the sender was waiting for an entry when an entry with an earlier
\* send_time was pushed, and it has been woken
C31_Witness ==
    \E d \in Dirs :
        /\ spc[d] = "woken"
        /\ Len(queue[d]) = 2
        /\ queue[d][1].seq > queue[d][2].seq
        /\ queue[d][1].send_time < queue[d][2].send_time
\* C32: a bus handle is closed only by stop(), after running was set to
\* false and both conditions were notified, and when no worker is left in
\* its loop: none is inside recv or send when its bus is shut down.
C32_CloseAfterJoin ==
    [][(\E i \in Ifaces : bus[i] /\ ~bus'[i]) =>
          /\ ~running
          /\ ctl = "join"
          /\ \A d \in Dirs : rpc[d] \in {"none", "done"} /\ spc[d] \in {"none", "done"}
          /\ \A i \in Ifaces : ~bus'[i]
      ]_vars

\* stop() has returned on a gateway that had forwarded a frame: the
\* handles are closed and the workers gone
C32_Witness ==
    /\ ctl = "idle" /\ ~running
    /\ \A i \in Ifaces : ~bus[i]
    /\ \A d \in Dirs : rpc[d] = "none" /\ spc[d] = "none"
    /\ \E d \in Dirs : forwarded[d] >= 1
\* the results of process for the rule lists the engine held during the call
SnapshotResults ==
    {Process(TRUE, rs, call.arb_id, call.data, call.direction) : rs \in call.lists}

\* C33: the result of process equals the result for the rule list as it
\* was before or after a change made during the call.
C33_Snapshot ==
    (call # Nil /\ call.fn = "process_steps" /\ call.done) =>
        call.ret \in SnapshotResults

\* C33 for add_rule, clear_rules and set_rules alone
C33_SnapshotNoRemove ==
    (call # Nil /\ call.fn = "process_steps" /\ call.done /\ ~call.removed) =>
        call.ret \in SnapshotResults

\* process has returned a rule's result although the list was changed
\* after its first rule had been looked at
C33_Witness ==
    /\ call # Nil /\ call.fn = "process_steps" /\ call.done
    /\ call.mutations = 1 /\ Cardinality(call.lists) = 2
    /\ call.index >= 2
    /\ call.ret[1] # "forward"

\* ------------------------------------- the settings read by the receiver

\* setter calls the model lets run during one evaluation of a frame
MaxWrites == 2

\* a receiver is between the loss step and the computation of send_time
InEvaluate == call # Nil /\ call.fn = "evaluate" /\ ~call.done

\* the receiver reaches the loss step of a frame received at recv_time
EvaluateBegin ==
    /\ call = Nil
    /\ call' = [fn |-> "evaluate", pos |-> "loss", recv_time |-> now,
                drawn |-> {}, dropped |-> FALSE, base_delay |-> 0, low |-> 0,
                high |-> 0, jitter |-> 0, send_time |-> 0, seen |-> {InForce},
                writes |-> 0, done |-> FALSE]
    /\ UNCHANGED <<life, threads, queue, counters, latency_samples, config, clock,
                   tx, rows, evicted, past, manager, glog>>

\* if self._loss_pct > 0: the first read of the loss setting
EvaluateLossGuard ==
    /\ InEvaluate /\ call.pos = "loss"
    /\ call' = [call EXCEPT !.pos = IF loss_pct > 0 THEN "compare" ELSE "delay"]
    /\ UNCHANGED <<life, threads, queue, counters, latency_samples, config, clock,
                   tx, rows, evicted, past, manager, glog>>

\* random.random() * 100 < self._loss_pct: the second read
EvaluateLossCompare ==
    /\ InEvaluate /\ call.pos = "compare"
    /\ \E r \in RandomPcts :
          call' = [call EXCEPT !.drawn = {r},
                               !.dropped = r < loss_pct,
                               !.done = r < loss_pct,
                               !.pos = "delay"]
    /\ UNCHANGED <<life, threads, queue, counters, latency_samples, config, clock,
                   tx, rows, evicted, past, manager, glog>>

\* base_delay = self._delay_ms / 1000.0
EvaluateDelay ==
    /\ InEvaluate /\ call.pos = "delay"
    /\ call' = [call EXCEPT !.base_delay = delay_ms, !.pos = "jitter"]
    /\ UNCHANGED <<life, threads, queue, counters, latency_samples, config, clock,
                   tx, rows, evicted, past, manager, glog>>

\* ... if self._jitter_ms > 0 else 0.0: the condition is evaluated first
EvaluateJitterGuard ==
    /\ InEvaluate /\ call.pos = "jitter"
    /\ call' = [call EXCEPT !.pos = IF jitter_ms > 0 THEN "low" ELSE "time"]
    /\ UNCHANGED <<life, threads, queue, counters, latency_samples, config, clock,
                   tx, rows, evicted, past, manager, glog>>

\* the first argument of random.uniform: -self._jitter_ms
EvaluateJitterLow ==
    /\ InEvaluate /\ call.pos = "low"
    /\ call' = [call EXCEPT !.low = 0 - jitter_ms, !.pos = "high"]
    /\ UNCHANGED <<life, threads, queue, counters, latency_samples, config, clock,
                   tx, rows, evicted, past, manager, glog>>

\* the second argument, self._jitter_ms, and the sample between the two
EvaluateJitterHigh ==
    /\ InEvaluate /\ call.pos = "high"
    /\ \E jitter \in call.low .. jitter_ms :
          call' = [call EXCEPT !.high = jitter_ms, !.jitter = jitter,
                               !.pos = "time"]
    /\ UNCHANGED <<life, threads, queue, counters, latency_samples, config, clock,
                   tx, rows, evicted, past, manager, glog>>

\* send_time = max(recv_time + base_delay + jitter + rule_delay, recv_time)
EvaluateSendTime ==
    /\ InEvaluate /\ call.pos = "time"
    /\ call' = [call EXCEPT !.send_time = SendTime(call.recv_time,
                                                   call.base_delay,
                                                   call.jitter, 0),
                            !.done = TRUE]
    /\ UNCHANGED <<life, threads, queue, counters, latency_samples, config, clock,
                   tx, rows, evicted, past, manager, glog>>

\* another thread assigns one setting through its property setter while the
\* receiver evaluates a frame; update_settings is a sequence of such calls
SetDuring(f, v) ==
    /\ InEvaluate
    /\ call.writes < MaxWrites
    /\ delay_ms' = IF f = "delay_ms" THEN v ELSE delay_ms
    /\ loss_pct' = IF f = "loss_pct" THEN v ELSE loss_pct
    /\ jitter_ms' = IF f = "jitter_ms" THEN ClampJitter(v) ELSE jitter_ms
    /\ call' = [call EXCEPT !.seen = @ \cup {InForce'}, !.writes = @ + 1]
    /\ UNCHANGED <<life, threads, queue, counters, latency_samples, clock,
                   tx, rows, evicted, past, manager, glog, enabled, logger,
                   rules, engine_enabled>>

InitTriple ==
    \E d \in DelayValues, l \in LossValues, j \in JitterValues :
        Constructed(d, l, j, FALSE, <<>>)

NextTriple ==
    \/ EvaluateBegin
    \/ EvaluateLossGuard
    \/ EvaluateLossCompare
    \/ EvaluateDelay
    \/ EvaluateJitterGuard
    \/ EvaluateJitterLow
    \/ EvaluateJitterHigh
    \/ EvaluateSendTime
    \/ \E f \in Fields : \E v \in FieldValues(f) : SetDuring(f, v)

SpecTriple == InitTriple /\ [][NextTriple]_vars

\* Retuning: the three setters are called while frames with id 1 are queued
\* in one direction; no rule, no logger, the clock runs.
InitRetune == Constructed(1, 0, 0, FALSE, <<>>)

NextRetune ==
    \/ StartUp
    \/ Tick
    \/ \E v \in DelayValues : SetDelay(v)
    \/ \E v \in JitterValues : SetJitter(v)
    \/ \E v \in LossValues : SetLoss(v)
    \/ Steps("0to1")
    \/ RecvLossDrop("0to1")
    \/ \E f \in {g \in FrameSet : g.arb_id = 1} : RecvFrame("0to1", f)

SpecRetune == InitRetune /\ [][NextRetune]_vars

\* clear_latency_samples of the facade and of the gateway: both deques are
\* cleared under the latency lock
ClearLatencySamples ==
    /\ ctl = "idle" /\ running
    /\ latency_samples' = [d \in Dirs |-> <<>>]
    /\ UNCHANGED <<life, threads, queue, counters, config, clock, trace>>

\* Latency window: a gateway with a logger that has run since its start()
\* and has forwarded n frames in each direction, n one short of the window or
\* equal to it; the samples are numbered by age. bus.send and log_tx may
\* fail; the frames have the id 1.
InitWindow ==
    \E n \in {LatencyWindow - 1, LatencyWindow} :
        /\ running = TRUE
        /\ ctl = "idle"
        /\ bus = [i \in Ifaces |-> TRUE]
        /\ rpc = [d \in Dirs |-> "loop"]
        /\ spc = [d \in Dirs |-> "loop"]
        /\ cur = [d \in Dirs |-> Nil]
        /\ out = [d \in Dirs |-> Nil]
        /\ owner = [d \in Dirs |-> "none"]
        /\ queue = [d \in Dirs |-> <<>>]
        /\ received = [d \in Dirs |-> n]
        /\ forwarded = [d \in Dirs |-> n]
        /\ dropped = [d \in Dirs |-> 0]
        /\ latency_samples = [d \in Dirs |-> [k \in 1..n |-> k]]
        /\ enabled = [d \in Dirs |-> TRUE]
        /\ delay_ms = 0
        /\ loss_pct = 0
        /\ jitter_ms = 0
        /\ logger = TRUE
        /\ rules = <<>>
        /\ engine_enabled = TRUE
        /\ now = 0
        /\ injected = 0
        /\ tx = [i \in Ifaces |-> <<>>]
        /\ rows = [d \in Dirs |-> <<>>]
        /\ evicted = [d \in Dirs |-> {}]
        /\ stale = {}
        /\ call = Nil
        /\ manager = [config |-> [delay_ms |-> 0, loss_pct |-> 0, jitter_ms |-> 0],
                      gateway |-> TRUE, events |-> <<>>, log_path |-> TRUE,
                      lifecycle |-> <<>>,
                      listeners |-> [t \in {"GATEWAY_STARTED", "SETTINGS_CHANGED"} |-> <<>>],
                      subscribed |-> [t \in {"GATEWAY_STARTED", "SETTINGS_CHANGED"} |->
                                        [cb \in {"a", "b", "bad"} |-> 0]]]
        /\ glog = [config |-> [delay_ms |-> 0, jitter_ms |-> 0, loss_pct |-> 0],
                   seq |-> 0, csv |-> <<>>, session |-> TRUE, unclosed |-> 0]

NextWindow ==
    \/ ClearLatencySamples
    \/ \E d \in Dirs : Steps(d)
    \/ \E d \in Dirs :
          /\ OneAtATime(d)
          /\ \E f \in {g \in FrameSet : g.arb_id = 1} : RecvFrame(d, f)
    \/ \E d \in Dirs : OneAtATime(d) /\ SendFails(d)
    \/ \E d \in Dirs : OneAtATime(d) /\ SendOkLogTxFails(d)

SpecWindow == InitWindow /\ [][NextWindow]_vars

\* ------------------------------------------------- get_stats, read by read

InGetStats == call # Nil /\ call.fn = "get_stats" /\ ~call.done

\* GatewayManager.get_stats(d) of a facade that has a gateway
GetStats(d) ==
    /\ call = Nil
    /\ manager.gateway /\ running /\ ctl = "idle"
    /\ call' = [fn |-> "get_stats", direction |-> d, pos |-> "received",
                ret |-> [received |-> 0, forwarded |-> 0, dropped |-> 0,
                         queue_size |-> 0],
                done |-> FALSE]
    /\ UNCHANGED <<life, threads, queue, counters, latency_samples, config, clock,
                   tx, rows, evicted, past, manager, glog>>

\* "received": self._gateway.received_0to1, read under the stats lock
GetStatsReceived ==
    /\ InGetStats /\ call.pos = "received"
    /\ call' = [call EXCEPT !.ret.received = received[call.direction],
                            !.pos = "forwarded"]
    /\ UNCHANGED <<life, threads, queue, counters, latency_samples, config, clock,
                   tx, rows, evicted, past, manager, glog>>

\* "forwarded": self._gateway.forwarded_0to1, the stats lock taken anew
GetStatsForwarded ==
    /\ InGetStats /\ call.pos = "forwarded"
    /\ call' = [call EXCEPT !.ret.forwarded = forwarded[call.direction],
                            !.pos = "dropped"]
    /\ UNCHANGED <<life, threads, queue, counters, latency_samples, config, clock,
                   tx, rows, evicted, past, manager, glog>>

\* "dropped": self._gateway.dropped_0to1, the stats lock taken anew
GetStatsDropped ==
    /\ InGetStats /\ call.pos = "dropped"
    /\ call' = [call EXCEPT !.ret.dropped = dropped[call.direction],
                            !.pos = "queue_size"]
    /\ UNCHANGED <<life, threads, queue, counters, latency_samples, config, clock,
                   tx, rows, evicted, past, manager, glog>>

\* "queue_size": self._gateway.queue_size_0to1, without a lock; the
\* dictionary is returned
GetStatsQueueSize ==
    /\ InGetStats /\ call.pos = "queue_size"
    /\ call' = [call EXCEPT !.ret.queue_size = Len(queue[call.direction]),
                            !.done = TRUE]
    /\ UNCHANGED <<life, threads, queue, counters, latency_samples, config, clock,
                   tx, rows, evicted, past, manager, glog>>

\* Statistics: the facade starts the gateway, frames with id 1 arrive on
\* iface0 and get_stats("0to1") is called once while the workers run; no
\* logger, rule or loss, the bus works.
InitStats == Constructed(0, 0, 0, FALSE, <<>>)

NextStats ==
    \/ ManagerStart
    \/ StartOpen0
    \/ ManagerStarted
    \/ Steps("0to1")
    \/ \E f \in {g \in FrameSet : g.arb_id = 1} : RecvFrame("0to1", f)
    \/ GetStats("0to1")
    \/ GetStatsReceived
    \/ GetStatsForwarded
    \/ GetStatsDropped
    \/ GetStatsQueueSize

SpecStats == InitStats /\ [][NextStats]_vars

\* the workers of SpecSwap with a logger that nobody closes under them; the
\* frames have the id 1
ShutdownWorkers(d) ==
    \/ OneAtATime(d) /\ RecvLoopHead(d)
    \/ OneAtATime(d) /\ RecvTimeout(d)
    \/ OneAtATime(d) /\ d = "0to1"
          /\ \E f \in {g \in FrameSet : g.arb_id = 1} : RecvFrame(d, f)
    \/ OneAtATime(d) /\ RecvSchedule(d)
    \/ OneAtATime(d) /\ RecvLock(d)
    \/ OneAtATime(d) /\ RecvEvict(d)
    \/ OneAtATime(d) /\ RecvPush(d)
    \/ OneAtATime(d) /\ SendLoopHead(d)
    \/ OneAtATime(d) /\ SendInnerHead(d)
    \/ OneAtATime(d) /\ SendWait(d)
    \/ OneAtATime(d) /\ SendWaitTimeout(d)
    \/ OneAtATime(d) /\ SendWakeNotified(d)
    \/ OneAtATime(d) /\ SendPop(d)
    \/ OneAtATime(d) /\ ~logger /\ SendOk(d)
    \/ OneAtATime(d) /\ SendBump(d)
    \/ OneAtATime(d) /\ SendRow(d)

\* Shutdown: a log path may be set before the facade starts the gateway;
\* frames are forwarded and logged, and the facade stops the gateway while
\* the workers run.
InitShutdown == Constructed(0, 0, 0, FALSE, <<>>)

NextShutdown ==
    \/ call = Nil /\ ~manager.gateway /\ ManagerSetLogPath(TRUE)
    \/ ManagerStart
    \/ StartOpen0
    \/ ManagerStarted
    \/ ManagerStop
    \/ StopNotify
    \/ ManagerStopped
    \/ \E d \in Dirs : ShutdownWorkers(d)

SpecShutdown == InitShutdown /\ [][NextShutdown]_vars

\* ------------------------------------------------------------- the locks

\* the two heap locks (stats.condition of a direction, named by the
\* direction) and the three locks of the gateway
Locks == Dirs \cup {"stats", "latency", "direction"}

\* the four workers, a thread inside stop() and a thread calling the facade
LockThreads ==
    {<<k, d>> : k \in {"recv", "send"}, d \in Dirs}
        \cup {<<"stop", "both">>, <<"facade", "both">>}

\* stop() with the second condition taken inside the first
StopHoldsBoth ==
    {<<"loop", "acquire", "0to1", "first">>,
     <<"first", "acquire", "1to0", "second">>,
     <<"second", "release", "1to0", "between">>,
     <<"between", "release", "0to1", "join">>}

\* stop(): with self._stats_0to1.condition: notify_all(), then the same for
\* 1to0, then the joins; <<from, operation, lock, to>>
StopProgram ==
    {<<"loop", "acquire", "0to1", "first">>,
     <<"first", "release", "0to1", "between">>,
     <<"between", "acquire", "1to0", "second">>,
     <<"second", "release", "1to0", "join">>}

\* one pass of _receive_loop for direction d: the enabled flag under the
\* direction lock, _increment_received, a drop by a rule or by loss, or the
\* push under the heap lock with _increment_dropped for every eviction
ReceiverProgram(d) ==
    {<<"loop", "acquire", "direction", "enabled">>,
     <<"enabled", "release", "direction", "checked">>,
     <<"checked", "go", "", "loop">>,
     <<"checked", "acquire", "stats", "received">>,
     <<"received", "release", "stats", "rules">>,
     <<"rules", "acquire", "stats", "dropped">>,
     <<"dropped", "release", "stats", "loop">>,
     <<"rules", "acquire", d, "heap">>,
     <<"heap", "acquire", "stats", "evict">>,
     <<"evict", "release", "stats", "heap">>,
     <<"heap", "release", d, "loop">>}

\* one pass of _send_loop for direction d: the heap lock, given up and taken
\* again by condition.wait, then the latency lock and _increment_forwarded,
\* or _increment_dropped when bus.send raised
SenderProgram(d) ==
    {<<"loop", "acquire", d, "heap">>,
     <<"heap", "release", d, "wait">>,
     <<"wait", "acquire", d, "heap">>,
     <<"heap", "release", d, "popped">>,
     <<"popped", "go", "", "loop">>,
     <<"popped", "acquire", "latency", "sample">>,
     <<"sample", "release", "latency", "sent">>,
     <<"sent", "acquire", "stats", "counted">>,
     <<"popped", "acquire", "stats", "counted">>,
     <<"counted", "release", "stats", "loop">>}

\* the calls of the facade that take a lock: a counter property,
\* get_latency_samples or clear_latency_samples, set_direction_enabled
FacadeProgram ==
    {<<"loop", "acquire", "stats", "counter">>,
     <<"counter", "release", "stats", "loop">>,
     <<"loop", "acquire", "latency", "samples">>,
     <<"samples", "release", "latency", "loop">>,
     <<"loop", "acquire", "direction", "flag">>,
     <<"flag", "release", "direction", "loop">>}

Program(t) ==
    IF t[1] = "recv" THEN ReceiverProgram(t[2])
    ELSE IF t[1] = "send" THEN SenderProgram(t[2])
    ELSE IF t[1] = "stop" THEN StopProgram
    ELSE FacadeProgram

InLocks == call # Nil /\ call.fn = "locks"

\* the steps thread t can take next, and the locks somebody holds
Ahead(t) == {s \in Program(t) : s[1] = call.at[t]}

Taken == {call.held[t][k] : t \in LockThreads, k \in 1..2} \ {""}

\* the gateway runs: no thread holds a lock
LocksBegin ==
    /\ call = Nil
    /\ call' = [fn |-> "locks", at |-> [t \in LockThreads |-> "loop"],
                held |-> [t \in LockThreads |-> <<"", "">>]]
    /\ UNCHANGED <<life, threads, queue, counters, latency_samples, config, clock,
                   tx, rows, evicted, past, manager, glog>>

\* thread t enters a with block whose lock is free
Acquire(t) ==
    /\ InLocks
    /\ \E s \in Ahead(t) :
          /\ s[2] = "acquire"
          /\ s[3] \notin Taken
          /\ call' = [call EXCEPT
                        !.at[t] = s[4],
                        !.held[t] = IF @[1] = "" THEN <<s[3], "">>
                                    ELSE <<@[1], s[3]>>]
    /\ UNCHANGED <<life, threads, queue, counters, latency_samples, config, clock,
                   tx, rows, evicted, past, manager, glog>>

\* thread t leaves a with block, or gives the lock up in condition.wait
Release(t) ==
    /\ InLocks
    /\ \E s \in Ahead(t) :
          /\ s[2] = "release"
          /\ call' = [call EXCEPT
                        !.at[t] = s[4],
                        !.held[t] = IF @[2] = s[3] THEN <<@[1], "">>
                                    ELSE <<@[2], "">>]
    /\ UNCHANGED <<life, threads, queue, counters, latency_samples, config, clock,
                   tx, rows, evicted, past, manager, glog>>

\* thread t goes back to the head of its loop without a lock
Continue(t) ==
    /\ InLocks
    /\ \E s \in Ahead(t) :
          /\ s[2] = "go"
          /\ call' = [call EXCEPT !.at[t] = s[4]]
    /\ UNCHANGED <<life, threads, queue, counters, latency_samples, config, clock,
                   tx, rows, evicted, past, manager, glog>>

InitLocks == Constructed(0, 0, 0, FALSE, <<>>)

NextLocks ==
    \/ LocksBegin
    \/ \E t \in LockThreads : Acquire(t)
    \/ \E t \in LockThreads : Release(t)
    \/ \E t \in LockThreads : Continue(t)

SpecLocks == InitLocks /\ [][NextLocks]_vars

\* what a frame evaluated under the settings t can come to with the random
\* number r in its loss step
Outcome(t, c, r) ==
    IF t.loss_pct > 0 /\ r < t.loss_pct
    THEN c.dropped
    ELSE /\ ~c.dropped
         /\ \E jitter \in (IF t.jitter_ms > 0
                           THEN (0 - t.jitter_ms) .. t.jitter_ms ELSE {0}) :
               c.send_time = SendTime(c.recv_time, t.delay_ms, jitter, 0)

\* the evaluation c is one that the settings t allow: with the random number
\* it drew, or with any if it drew none
FromTriple(t, c) ==
    \E r \in (IF c.drawn = {} THEN RandomPcts ELSE c.drawn) : Outcome(t, c, r)

\* C34: the loss decision, the jitter sample and send_time of a frame come
\* from one (delay_ms, jitter_ms, loss_pct) triple that was in force at some
\* instant of the evaluation, also when setters run during it.
C34_OneTriple ==
    (call # Nil /\ call.fn = "evaluate" /\ call.done)
        => \E t \in call.seen : FromTriple(t, call)

\* the same, when at most one setter call falls into the evaluation
C34_OneTripleOneWrite ==
    (call # Nil /\ call.fn = "evaluate" /\ call.done /\ call.writes <= 1)
        => \E t \in call.seen : FromTriple(t, call)

\* a frame was scheduled although settings changed during its evaluation
C34_Witness ==
    /\ call # Nil /\ call.fn = "evaluate" /\ call.done
    /\ ~call.dropped /\ call.writes = 2

\* the threads that hold a lock thread t may be about to take (which of its
\* steps a thread takes next depends on the frame and on the heap)
Holders(t) ==
    {u \in LockThreads :
        \E s \in Ahead(t), k \in 1..2 :
            s[2] = "acquire" /\ call.held[u][k] = s[3]}

\* thread t may be waiting for a lock that another thread holds
Blocked(t) == Holders(t) # {}

\* C35: no thread holds both heap locks; under a heap lock only the stats
\* lock is taken; the stats, latency and direction locks are innermost; and
\* in no set of threads does every thread wait for a lock held inside the
\* set (no deadlock).
C35_LockOrder ==
    InLocks =>
        /\ \A t \in LockThreads :
              /\ ~(call.held[t][1] \in Dirs /\ call.held[t][2] \in Dirs)
              /\ call.held[t][2] # "" =>
                    call.held[t][1] \in Dirs /\ call.held[t][2] = "stats"
        /\ \A S \in SUBSET LockThreads :
              S # {} => \E t \in S : Holders(t) \cap S = {}

\* a receiver evicts under its heap lock and holds the stats lock, while the
\* sender of its direction waits for the heap and the facade for the counters
C35_Witness ==
    /\ InLocks
    /\ call.held[<<"recv", "0to1">>] = <<"0to1", "stats">>
    /\ Blocked(<<"send", "0to1">>)
    /\ Blocked(<<"recv", "1to0">>)
    /\ call.at[<<"stop", "both">>] = "between"

\* the entry of the heap q that stands for the frame with number n
Queued(q, n) == {q[k] : k \in {i \in 1..Len(q) : q[i].seq = n}}

\* C36: a step that changes delay_ms, jitter_ms or loss_pct leaves both heaps
\* and the frame a receiver has already scheduled as they are, and in every
\* step an entry that stays queued keeps its send_time and its content.
C36_QueuedKeep ==
    [][/\ (delay_ms' # delay_ms \/ jitter_ms' # jitter_ms
              \/ loss_pct' # loss_pct) => (queue' = queue /\ cur' = cur)
       /\ \A d \in Dirs : \A k \in 1..Len(queue[d]) :
             Queued(queue'[d], queue[d][k].seq) \subseteq {queue[d][k]}]_vars

\* a frame scheduled with the delay 1 is still queued with that send_time
\* after the delay was set to 0 and the jitter is 0
C36_Witness ==
    /\ running /\ delay_ms = 0 /\ jitter_ms = 0
    /\ \E k \in 1..Len(queue["0to1"]) :
          queue["0to1"][k].send_time = queue["0to1"][k].recv_time + 1

\* the part of C37 that is about the window alone: never more than 100
\* samples, a sample is appended exactly in the step that puts a frame on the
\* bus, a full window loses its oldest sample, and clear_latency_samples
\* empties both windows and touches nothing else.
C37_WindowOfSends ==
    /\ [](\A d \in Dirs : Len(latency_samples[d]) <= LatencyWindow)
    /\ [][\A d \in Dirs :
             IF tx'[DstIface(d)] # tx[DstIface(d)]
             THEN \E x \in 0..MaxTime :
                     latency_samples'[d] =
                         IF Len(latency_samples[d]) = LatencyWindow
                         THEN Append(Tail(latency_samples[d]), x)
                         ELSE Append(latency_samples[d], x)
             ELSE \/ latency_samples'[d] = latency_samples[d]
                  \/ /\ latency_samples' = [e \in Dirs |-> <<>>]
                     /\ UNCHANGED <<counters, queue, tx>>]_vars

\* C37: the window never holds more than 100 samples, a sample is appended
\* exactly when a send succeeds (one per forwarded frame, none for a frame
\* counted as dropped), a full window loses its oldest sample, and
\* clear_latency_samples changes no counter and no heap.
C37_Window ==
    /\ C37_WindowOfSends
    /\ [][\A d \in Dirs :
             /\ forwarded'[d] # forwarded[d] =>
                   Len(latency_samples'[d]) =
                       IF Len(latency_samples[d]) = LatencyWindow
                       THEN LatencyWindow ELSE Len(latency_samples[d]) + 1
             /\ dropped'[d] # dropped[d] =>
                   latency_samples'[d] = latency_samples[d]]_vars

\* two sends into a window of 99 samples: the second has pushed the oldest
\* sample out
C37_Witness ==
    /\ Len(latency_samples["0to1"]) = LatencyWindow
    /\ latency_samples["0to1"][1] = 2
    /\ forwarded["0to1"] = LatencyWindow + 1

\* C38: when publish(t, data) returns, the callbacks subscribed to t when it
\* began have been called once each, in subscription order, before any other
\* call, whatever the callbacks did to the subscriptions of t meanwhile.
C38_Snapshot ==
    (call # Nil /\ call.fn = "dispatch" /\ call.done) =>
        /\ Len(call.called) >= Len(call.began)
        /\ SubSeq(call.called, 1, Len(call.began)) = call.began

\* the same for a publish whose callbacks only subscribe
C38_SnapshotSubscribing ==
    (call # Nil /\ call.fn = "dispatch" /\ call.done
        /\ Len(manager.listeners[call.type]) >= Len(call.began)) =>
        /\ Len(call.called) >= Len(call.began)
        /\ SubSeq(call.called, 1, Len(call.began)) = call.began

\* a publish to three callbacks has returned, and one of them has
\* unsubscribed a callback during the dispatch
C38_Witness ==
    /\ call # Nil /\ call.fn = "dispatch" /\ call.done
    /\ Len(call.began) = 3 /\ call.changes = 1
    /\ Len(manager.listeners[call.type]) = 2

\* C39: the dictionary get_stats returns while the gateway runs satisfies
\* forwarded + dropped <= received.
C39_StatsSnapshot ==
    (call # Nil /\ call.fn = "get_stats" /\ call.done) =>
        call.ret.forwarded + call.ret.dropped <= call.ret.received

\* the counters themselves, at every instant
C39_CountersNow ==
    \A d \in Dirs : forwarded[d] + dropped[d] <= received[d]

\* get_stats has returned a dictionary read while frames were forwarded
C39_Witness ==
    /\ call # Nil /\ call.fn = "get_stats" /\ call.done
    /\ call.ret.forwarded > 0
    /\ call.ret.received < received[call.direction]

\* C40: the logger is closed only in a step in which the gateway has stopped
\* (not running, every worker terminated, the handles closed by that step);
\* no row is written and no sender stands before its row while the logger is
\* closed; and when GATEWAY_STOPPED is published, is_running() and
\* is_logging_enabled() are false.
C40_StopOrder ==
    /\ [](\A d \in Dirs : spc[d] = "txrow" => glog.session)
    /\ [][/\ rows' # rows => glog.session
          /\ (glog.session /\ ~glog'.session) =>
                /\ ~running /\ ctl = "join"
                /\ \A d \in Dirs : ~WorkerAlive(rpc[d]) /\ ~WorkerAlive(spc[d])
                /\ \A i \in Ifaces : ~bus'[i]
          /\ (Len(manager'.lifecycle) > Len(manager.lifecycle)
                /\ manager'.lifecycle[Len(manager'.lifecycle)].type
                      = "GATEWAY_STOPPED") =>
                /\ ~(manager'.gateway /\ running')
                /\ ~glog'.session]_vars

\* the facade has stopped a gateway that logged a frame and had another one
\* in a heap when it stopped; GATEWAY_STOPPED is the last event
C40_Witness ==
    /\ Len(manager.lifecycle) = 2
    /\ manager.lifecycle[2].type = "GATEWAY_STOPPED"
    /\ ctl = "idle" /\ ~manager.gateway /\ ~glog.session
    /\ rows["0to1"] # <<>>
    /\ queue["0to1"] # <<>>

====
